---------------------------- MODULE Spec2Model ----------------------------
(***************************************************************************)
(* A model of the honeydipper service supervisor and its message bus.      *)
(*                                                                         *)
(*   SpecComm    the framed writer and its lock registry (dipper/comm.go)  *)
(*   SpecExpect  the expect table of a service, its timers and its         *)
(*               dispatch (internal/service/service.go)                    *)
(*   Spec        the life cycle of the driver runtimes of one service:     *)
(*               boot, Reload, the service loop, state:cold and crash      *)
(*               recovery (internal/service/service.go)                    *)
(*   SpecCodec   SendRawMessage, FetchRawMessage and DeserializePayload    *)
(*               over byte strings (dipper/comm.go)                        *)
(*   SpecRpc     the responders of rpc:call and rpc:return                 *)
(*   SpecCall    the service's own Calls and their returns                 *)
(*   SpecDrain   handleReload, Drain and handleDriverStop                  *)
(*   SpecProc    process() and the tasks it starts                         *)
(*   SpecStop    SpecDrain with drivers that send state:stopped unasked    *)
(*   SpecCrash   Spec with one outside event and two recovery tasks        *)
(*   SpecLoad    concurrent calls of loadFeature, statement by statement   *)
(*   SpecRemove  SpecComm with RemoveComm                                  *)
(*                                                                         *)
(* Every specification runs its own part; the other parts stay idle.       *)
(*                                                                         *)
(* In Spec a call of loadFeature, a timer task of addExpect and one         *)
(* iteration of serviceLoop with process() are one step each; the finer    *)
(* steps of the timer task are those of SpecExpect.                        *)
(***************************************************************************)
EXTENDS Integers, Sequences, FiniteSets, TLC

(***************************************************************************)
(* Bounds of the model.                                                    *)
(***************************************************************************)
\* number of tasks that call SendRawMessage concurrently
NSenders == 2

Senders == 1..NSenders
Writers == {"w1", "w2"}
\* a payload is empty (size 0) or not (size 1): SendRawMessage only tests size > 0
PayloadSizes == {0, 1}
\* mutex objects the registry may allocate: one per writer
LockIds == 1..Cardinality(Writers)

\* number of addExpect calls in a run
MaxExpects == 2
\* number of messages handed to process() per expect key
MaxDelivered == 2

\* driver runtimes created in a run of Spec
MaxRt == 2
\* events from outside in a run of Spec: calls of Reload, driver processes
\* that exit on their own, state:cold messages
MaxEvents == 2
\* recovery tasks the service loop starts in a run of Spec
MaxChains == 1
\* addExpect calls in a run of Spec
MaxLifeExpects == 3

\* const DriverRetryCount = 3
DriverRetryCount == 3

DriverNames == {"d1", "d2"}
ExpIds == 1..MaxExpects
RtIds == 1..MaxRt
\* const FeatureEmitter = "emitter"
FeatureEmitter == "emitter"
\* the features of the model: one named in daemon.features, one dynamic
\* feature "driver:d2" returned by DiscoverFeatures
Features == {FeatureEmitter, "driver:d2"}
\* Service.name
ServiceName == "engine"
\* fmt.Sprintf("%s:%s:%s", msg.Channel, msg.Subject, Meta().Name)
ExpectKey(channel, subject, driverName) == <<channel, subject, driverName>>
\* the keys expects are registered under: "state:alive:" + driverName
AliveKeys == {ExpectKey("state", "alive", d) : d \in DriverNames}

VARIABLES
    \* ---- dipper/comm.go ----
    commPc,         \* position of every sender inside SendRawMessage
    commOut,        \* the writer every sender sends to
    commSize,       \* the payload size of every sender's message
    commLock,       \* the local variable `lock` of LockComm, per sender
    MasterCommLock, \* 0 when free, else the sender holding it
    CommLocks,      \* registry writer -> mutex (0: no entry)
    lockHeld,       \* mutex -> locked?
    wire,           \* per writer, the chunks written so far, in order
    \* ---- internal/service/service.go: the expect table ----
    expects,        \* Service.expects: key -> handlers in order (<<>>: no key)
    exp,            \* per addExpect call: its closures, its timer task, counters
    nExp,           \* number of addExpect calls made
    delivered,      \* per key, the messages process() has matched against it
    \* ---- internal/service/service.go: the service and its runtimes ----
    cfg,            \* the staged configuration (s.config)
    dynData,        \* Service.dynamicFeatureData: feature -> data (0: nil)
    driverRuntimes, \* Service.driverRuntimes: feature -> runtime (0: no entry)
    rt,             \* the driver.Runtime objects, by identity
    nRt,            \* number of runtimes created
    tasks,          \* the detached tasks (goroutines) in flight
    main,           \* the task running start() and Reload()
    loopRunning,    \* serviceLoop has been started
    Emitters,       \* daemon.Emitters has an entry for this service
    healthy,        \* Service.healthy
    rollBacks,      \* calls of config.RollBack()
    fatal,          \* the process has exited through Logger.Fatalf
    left,           \* events from outside and recovery chains still allowed
    lastLoad        \* the outcome of the latest loadFeature

commVars == <<commPc, commOut, commSize, commLock, MasterCommLock, CommLocks,
              lockHeld, wire>>

expVars == <<expects, exp, nExp, delivered>>

lifeVars == <<cfg, dynData, driverRuntimes, rt, nRt, tasks, main, loopRunning,
              Emitters, healthy, rollBacks, fatal, left, lastLoad>>

VARIABLES
    codecPc,        \* where the codec round trip stands
    codecIn,        \* the channel, subject and payload given to SendRawMessage,
                    \* and the bytes written to the stream after them
    codecWire,      \* the bytes of the stream not yet read
    codecMsg,       \* the Message FetchRawMessage returned
    codecPanic      \* the call that panicked, "" if none did

codecVars == <<codecPc, codecIn, codecWire, codecMsg, codecPanic>>

VARIABLES
    rpcSlots,       \* feature -> the runtime installed for it, 0 if none
    rpcInbox,       \* runtime -> the messages SendMessage gave it
    rpcPending,     \* the rpc messages whose responder has not run yet
    rpcReturned,    \* the messages handed to HandleReturn
    rpcPanics,      \* the responders that panicked
    rpcLeft         \* the messages and slot changes still to come

rpcVars == <<rpcSlots, rpcInbox, rpcPending, rpcReturned, rpcPanics, rpcLeft>>

VARIABLES
    callTable,      \* rpcID -> the state of the service's Call with that id
    callResult      \* rpcID -> what that Call returned

callVars == <<callTable, callResult>>

VARIABLES
    drnRt,          \* runtime -> its State
    drnMaster,      \* the service is masterService
    drnHealthy,     \* the service's healthy flag
    drnGroup,       \* s.drainingGroup: whether it is set, and its counter
    drnTask,        \* the tasks handleReload started, and where each stands
    drnInbox,       \* runtime -> the command:stop messages it has not taken
    drnPending,     \* runtime -> its state:stopped messages not yet handled
    drnRefresh,     \* the calls of config.Refresh()
    drnShutDown,    \* daemon.ShutDown() and os.Exit(0) were called
    drnPanics,      \* the responders that panicked
    drnLeft,        \* the reload messages still to come
    drnLast         \* the latest reload message and what handleReload did

drainVars == <<drnRt, drnMaster, drnHealthy, drnGroup, drnTask, drnInbox,
               drnPending, drnRefresh, drnShutDown, drnPanics, drnLeft, drnLast>>

VARIABLES
    prcDispatched,  \* the messages serviceLoop has given to process()
    prcTask,        \* message, handler -> the state of the handler's task
    prcChain,       \* message -> how far its transformers and router got
    prcCrashed      \* a panic has ended the process

procVars == <<prcDispatched, prcTask, prcChain, prcCrashed>>

auxVars == <<codecVars, rpcVars, callVars, drainVars, procVars>>

vars == <<commVars, expVars, lifeVars, auxVars>>

\* what a step of the codec leaves alone
notCodec ==
    <<commVars, expVars, lifeVars, rpcVars, callVars, drainVars, procVars>>

\* what a step of the rpc responders leaves alone
notRpc == <<commVars, expVars, lifeVars, codecVars, drainVars, procVars>>

\* what a step of a reload or a drain leaves alone
notDrain ==
    <<commVars, expVars, lifeVars, codecVars, rpcVars, callVars, procVars>>

\* what a step of process() and its tasks leaves alone
notProc ==
    <<commVars, expVars, lifeVars, codecVars, rpcVars, callVars, drainVars>>

(***************************************************************************)
(* dipper/comm.go                                                          *)
(***************************************************************************)
CommInit ==
    /\ commPc = [t \in Senders |-> "idle"]
    /\ commOut \in [Senders -> Writers]
    /\ commSize \in [Senders -> PayloadSizes]
    /\ commLock = [t \in Senders |-> 0]
    /\ MasterCommLock = 0
    /\ CommLocks = [w \in Writers |-> 0]
    /\ lockHeld = [l \in LockIds |-> FALSE]
    /\ wire = [w \in Writers |-> <<>>]

\* the mutex the registry creates for a writer that has no entry: a new
\* object, which is neither in the registry nor the mutex any sender took
\* from it earlier
NewLock ==
    CHOOSE l \in LockIds :
        /\ \A w \in Writers : CommLocks[w] # l
        /\ \A t \in Senders : commLock[t] # l

\* LockComm, first half: MasterCommLock.Lock(), then look the writer's mutex
\* up in the registry, creating it when absent.  The master lock stays held.
LockCommEnter(t) ==
    /\ commPc[t] = "idle"
    /\ MasterCommLock = 0
    /\ MasterCommLock' = t
    /\ LET w == commOut[t]
           l == IF CommLocks[w] = 0 THEN NewLock ELSE CommLocks[w]
       IN /\ CommLocks' = [CommLocks EXCEPT ![w] = l]
          /\ commLock' = [commLock EXCEPT ![t] = l]
    /\ commPc' = [commPc EXCEPT ![t] = "lc_lock"]
    /\ UNCHANGED <<commOut, commSize, lockHeld, wire>>

\* a LockComm that returns without waiting for the writer's mutex
LockCommAcquire_NoWait(t) ==
    /\ commPc[t] = "lc_lock"
    /\ lockHeld' = [lockHeld EXCEPT ![commLock[t]] = TRUE]
    /\ MasterCommLock' = 0
    /\ commPc' = [commPc EXCEPT ![t] = "write_hdr"]
    /\ UNCHANGED <<commOut, commSize, commLock, CommLocks, wire>>

\* LockComm, second half: lock.Lock() blocks while the mutex is held; the
\* deferred MasterCommLock.Unlock() runs only when LockComm returns.
LockCommAcquire(t) ==
    /\ commPc[t] = "lc_lock"
    /\ ~lockHeld[commLock[t]]
    /\ lockHeld' = [lockHeld EXCEPT ![commLock[t]] = TRUE]
    /\ MasterCommLock' = 0
    /\ commPc' = [commPc EXCEPT ![t] = "write_hdr"]
    /\ UNCHANGED <<commOut, commSize, commLock, CommLocks, wire>>

\* fmt.Fprintf(out, "%s %s %d\n", channel, subject, size): one Write
WriteHeader(t) ==
    /\ commPc[t] = "write_hdr"
    /\ wire' = [wire EXCEPT ![commOut[t]] =
                   Append(@, [kind |-> "hdr", from |-> t, size |-> commSize[t]])]
    /\ commPc' = [commPc EXCEPT ![t] =
                   IF commSize[t] > 0 THEN "write_payload" ELSE "unlock"]
    /\ UNCHANGED <<commOut, commSize, commLock, MasterCommLock, CommLocks, lockHeld>>

\* out.Write(payload), only when size > 0
WritePayload(t) ==
    /\ commPc[t] = "write_payload"
    /\ wire' = [wire EXCEPT ![commOut[t]] =
                   Append(@, [kind |-> "payload", from |-> t, size |-> commSize[t]])]
    /\ commPc' = [commPc EXCEPT ![t] = "unlock"]
    /\ UNCHANGED <<commOut, commSize, commLock, MasterCommLock, CommLocks, lockHeld>>

\* the deferred UnlockComm: MasterCommLock.Lock(), look the mutex up (panic
\* when the registry has no entry), lock.Unlock(), MasterCommLock.Unlock().
\* Nothing blocks after the master lock is taken, so the rest is one step.
\* Unlock() of a mutex that is not locked is a fatal error of the runtime.
UnlockComm(t) ==
    /\ commPc[t] = "unlock"
    /\ MasterCommLock = 0
    /\ LET l == CommLocks[commOut[t]]
       IN IF l = 0
          THEN /\ commPc' = [commPc EXCEPT ![t] = "panic"]
               /\ UNCHANGED lockHeld
          ELSE IF ~lockHeld[l]
          THEN /\ commPc' = [commPc EXCEPT ![t] = "fatal"]
               /\ UNCHANGED lockHeld
          ELSE /\ commPc' = [commPc EXCEPT ![t] = "done"]
               /\ lockHeld' = [lockHeld EXCEPT ![l] = FALSE]
    /\ UNCHANGED <<commOut, commSize, commLock, MasterCommLock, CommLocks, wire>>

SendRawMessage(t) ==
    \/ LockCommEnter(t)
    \/ LockCommAcquire(t)
    \/ WriteHeader(t)
    \/ WritePayload(t)
    \/ UnlockComm(t)

CommNext == \E t \in Senders : SendRawMessage(t)

\* RemoveComm(out): under MasterCommLock the writer's entry leaves the
\* registry, whether or not its mutex is held
RemoveComm(w) ==
    /\ MasterCommLock = 0
    /\ CommLocks' = [CommLocks EXCEPT ![w] = 0]
    /\ UNCHANGED <<commPc, commOut, commSize, commLock, MasterCommLock,
                   lockHeld, wire>>

(***************************************************************************)
(* dipper/comm.go: the frame codec                                         *)
(***************************************************************************)

\* the longest channel or subject, the longest enumerated payload, and the
\* length of the one payload whose size takes two digits
MaxTokenLen == 2
MaxPayloadLen == 2
LongPayloadLen == 12

\* bytes are one-character strings; fmt's scanner takes " " as a space and
\* "\n" as the end of the line
Spaces == {" "}
Newline == "\n"
TokenBytes == {"a", "1"}
PayloadBytes == {"a", "1", " ", Newline}
DigitBytes == <<"0", "1", "2", "3", "4", "5", "6", "7", "8", "9">>

SeqsUpTo(S, n) == UNION {[1..k -> S] : k \in 0..n}

\* the channels and subjects without whitespace, the empty one included
Tokens == SeqsUpTo(TokenBytes, MaxTokenLen)
Payloads == SeqsUpTo(PayloadBytes, MaxPayloadLen)
                \cup {[i \in 1..LongPayloadLen |-> "a"]}
\* what follows the frame on the stream: nothing, or the start of a frame
Followers == {<<>>, <<"a", " ">>}

\* fmt's %d
RECURSIVE FormatInt(_)
FormatInt(n) ==
    IF n < 10 THEN <<DigitBytes[n + 1]>>
    ELSE FormatInt(n \div 10) \o <<DigitBytes[(n % 10) + 1]>>

\* a writer that puts the payload before its header
Frame_PayloadFirst(channel, subject, payload) ==
    LET size == Len(payload)
        header == channel \o <<" ">> \o subject \o <<" ">>
                    \o FormatInt(size) \o <<Newline>>
    IN IF size > 0 THEN payload \o header ELSE header

\* the bytes SendRawMessage writes: Fprintf(out, "%s %s %d\n", channel,
\* subject, size), then the payload if size > 0
Frame(channel, subject, payload) ==
    LET size == Len(payload)
        header == channel \o <<" ">> \o subject \o <<" ">>
                    \o FormatInt(size) \o <<Newline>>
    IN IF size > 0 THEN header \o payload ELSE header

Drop(b, n) == SubSeq(b, n + 1, Len(b))

\* fmt: ss.SkipSpace when a newline ends the scan
RECURSIVE SkipSpace(_)
SkipSpace(b) ==
    IF b # <<>> /\ Head(b) \in Spaces THEN SkipSpace(Tail(b)) ELSE b

RECURSIVE TokenLen(_)
TokenLen(b) ==
    IF b = <<>> \/ Head(b) \in Spaces \cup {Newline} THEN 0
    ELSE 1 + TokenLen(Tail(b))

RECURSIVE DigitLen(_)
DigitLen(b) ==
    IF b = <<>> \/ Head(b) \notin {DigitBytes[i] : i \in DOMAIN DigitBytes} THEN 0
    ELSE 1 + DigitLen(Tail(b))

DigitValue(c) == (CHOOSE i \in DOMAIN DigitBytes : DigitBytes[i] = c) - 1

RECURSIVE ParseInt(_)
ParseInt(d) ==
    IF d = <<>> THEN 0
    ELSE 10 * ParseInt(SubSeq(d, 1, Len(d) - 1)) + DigitValue(d[Len(d)])

\* fmt: a string operand is the next run of non-space bytes; a newline or
\* the end of the input in its place is an error
ScanString(b) ==
    LET s == SkipSpace(b)
        n == TokenLen(s)
    IN [err |-> n = 0, val |-> SubSeq(s, 1, n), rest |-> Drop(s, n)]

\* fmt: an int operand is the next run of digits
ScanInt(b) ==
    LET s == SkipSpace(b)
        n == DigitLen(s)
    IN [err |-> n = 0, val |-> ParseInt(SubSeq(s, 1, n)), rest |-> Drop(s, n)]

\* fmt: after the last operand of Fscanln only spaces may precede the
\* newline, which is consumed
ScanEnd(b) ==
    LET s == SkipSpace(b)
    IN IF s = <<>> THEN [err |-> FALSE, rest |-> s]
       ELSE IF Head(s) = Newline THEN [err |-> FALSE, rest |-> Tail(s)]
       ELSE [err |-> TRUE, rest |-> s]

\* fmt.Fscanln(in, &channel, &subject, &size)
Fscanln(in) ==
    LET c == ScanString(in)
        s == ScanString(c.rest)
        n == ScanInt(s.rest)
        e == ScanEnd(n.rest)
    IN [err |-> c.err \/ s.err \/ n.err \/ e.err,
        channel |-> c.val, subject |-> s.val, size |-> n.val, rest |-> e.rest]

\* a Payload: the nil interface, a []byte, or a decoded structure (kept as
\* the JSON text it was decoded from)
NilPayload == [kind |-> "nil", bytes |-> <<>>]
Bytes(b) == [kind |-> "bytes", bytes |-> b]
Decoded(b) == [kind |-> "decoded", bytes |-> b]

NoMsg == [Channel |-> <<>>, Subject |-> <<>>, Size |-> 0, IsRaw |-> FALSE,
          Payload |-> NilPayload]

\* FetchRawMessage: what it returns, whether it panicked, and what it left
\* on the stream
FetchRawMessage(in) ==
    LET h == Fscanln(in)
    IN IF h.err THEN [panic |-> TRUE, msg |-> NoMsg, rest |-> h.rest]
       ELSE IF h.size > 0 /\ Len(h.rest) < h.size
            THEN [panic |-> TRUE, msg |-> NoMsg, rest |-> <<>>]
       ELSE [panic |-> FALSE,
             msg |-> [Channel |-> h.channel, Subject |-> h.subject,
                      Size |-> h.size, IsRaw |-> TRUE,
                      Payload |-> IF h.size > 0
                                  THEN Bytes(SubSeq(h.rest, 1, h.size))
                                  ELSE NilPayload],
             rest |-> IF h.size > 0 THEN Drop(h.rest, h.size) ELSE h.rest]

JSONSpaces == {" ", Newline}

RECURSIVE TrimLeft(_)
TrimLeft(b) ==
    IF b # <<>> /\ Head(b) \in JSONSpaces THEN TrimLeft(Tail(b)) ELSE b

RECURSIVE TrimRight(_)
TrimRight(b) ==
    IF b # <<>> /\ b[Len(b)] \in JSONSpaces
    THEN TrimRight(SubSeq(b, 1, Len(b) - 1)) ELSE b

\* json.Unmarshal accepts the text: over PayloadBytes the JSON documents
\* are the numbers, with whitespace around them
ValidJSON(b) ==
    LET t == TrimRight(TrimLeft(b))
    IN t # <<>> /\ \A i \in DOMAIN t : t[i] = "1"

\* DeserializeContent: nil for empty content, a panic for what json.Unmarshal
\* rejects
DeserializeContent(content) ==
    IF Len(content) = 0 THEN [panic |-> FALSE, ret |-> NilPayload]
    ELSE IF ~ValidJSON(content) THEN [panic |-> TRUE, ret |-> NilPayload]
    ELSE [panic |-> FALSE, ret |-> Decoded(content)]

\* DeserializePayload: if msg.IsRaw, msg.Payload.([]byte) is decoded; the
\* type assertion panics when Payload does not hold a []byte
DeserializePayload(msg) ==
    IF ~msg.IsRaw THEN [panic |-> FALSE, msg |-> msg]
    ELSE IF msg.Payload.kind # "bytes" THEN [panic |-> TRUE, msg |-> msg]
    ELSE LET d == DeserializeContent(msg.Payload.bytes)
         IN IF d.panic THEN [panic |-> TRUE, msg |-> msg]
            ELSE [panic |-> FALSE, msg |-> [msg EXCEPT !.Payload = d.ret]]

CodecInit ==
    /\ codecPc = "new"
    /\ codecIn \in [channel : Tokens, subject : Tokens, payload : Payloads,
                    next : Followers]
    /\ codecWire = <<>>
    /\ codecMsg = NoMsg
    /\ codecPanic = ""

\* SendRawMessage(out, channel, subject, payload) on an empty stream, and
\* the next writer's bytes after it
CodecSend ==
    /\ codecPc = "new"
    /\ codecWire' = Frame(codecIn.channel, codecIn.subject, codecIn.payload)
                        \o codecIn.next
    /\ codecPc' = "sent"
    /\ UNCHANGED <<codecIn, codecMsg, codecPanic, notCodec>>

\* FetchRawMessage(in)
CodecFetch ==
    /\ codecPc = "sent"
    /\ LET f == FetchRawMessage(codecWire)
       IN /\ codecMsg' = f.msg
          /\ codecWire' = f.rest
          /\ codecPanic' = IF f.panic THEN "FetchRawMessage" ELSE ""
          /\ codecPc' = IF f.panic THEN "panic" ELSE "raw"
    /\ UNCHANGED <<codecIn, notCodec>>

\* a component builds a message in memory, with a decoded payload or none
CodecLocal ==
    /\ codecPc = "new"
    /\ codecMsg' = [Channel |-> codecIn.channel, Subject |-> codecIn.subject,
                    Size |-> 0, IsRaw |-> FALSE,
                    Payload |-> IF ValidJSON(codecIn.payload)
                                THEN Decoded(codecIn.payload) ELSE NilPayload]
    /\ codecPc' = "raw"
    /\ UNCHANGED <<codecIn, codecWire, codecPanic, notCodec>>

\* DeserializePayload(msg), a first and a second time
CodecDeserialize ==
    /\ codecPc \in {"raw", "decoded"}
    /\ LET d == DeserializePayload(codecMsg)
       IN /\ codecMsg' = d.msg
          /\ codecPanic' = IF d.panic THEN "DeserializePayload" ELSE ""
          /\ codecPc' = IF d.panic THEN "panic"
                        ELSE IF codecPc = "raw" THEN "decoded" ELSE "again"
    /\ UNCHANGED <<codecIn, codecWire, notCodec>>

CodecNext ==
    \/ CodecSend
    \/ CodecFetch
    \/ CodecLocal
    \/ CodecDeserialize

\* no codec call is under way
CodecIdle ==
    /\ codecPc = "idle"
    /\ codecIn = [channel |-> <<>>, subject |-> <<>>, payload |-> <<>>,
                  next |-> <<>>]
    /\ codecWire = <<>>
    /\ codecMsg = NoMsg
    /\ codecPanic = ""

(***************************************************************************)
(* internal/service/service.go: the expect table                           *)
(***************************************************************************)
\* the table entry of an addExpect call that was not made yet
NoExp == [key |-> <<>>, kind |-> "none", timer |-> "none", snap |-> 0,
          spawned |-> 0, hRan |-> 0, toRan |-> 0, atMsg |-> "none",
          feature |-> "", boot |-> FALSE, d |-> 0, count |-> 0, chain |-> 0]

\* the variables a handler or a timeout callback closes over
Closure(kind, feature, boot, d, count, chain) ==
    [kind |-> kind, feature |-> feature, boot |-> boot, d |-> d,
     count |-> count, chain |-> chain]

ExpectInit ==
    /\ expects = [k \in AliveKeys |-> <<>>]
    /\ exp = [h \in ExpIds |-> NoExp]
    /\ nExp = 0
    /\ delivered = [k \in AliveKeys |-> 0]

Range(s) == {s[i] : i \in 1..Len(s)}

\* s.expects[expectKey] of a key, <<>> when the map has no such key
ExpectsAt(k) == IF k \in DOMAIN expects THEN expects[k] ELSE <<>>

\* a deleteExpect that returns the handlers and leaves the key in the map
DeleteExpect_KeepKey(ex, k) == ex

\* deleteExpect: under expectLock, remove the key with its whole list
DeleteExpect(ex, k) == IF k \in DOMAIN ex THEN [ex EXCEPT ![k] = <<>>] ELSE ex

\* addExpect(expectKey, processor, timeout, except): under expectLock append
\* the handler to the key's list and start the timer task, which sleeps
AddExpect(k, closures) ==
    /\ nExp + 1 \in DOMAIN exp
    /\ nExp' = nExp + 1
    /\ expects' = [expects EXCEPT ![k] = Append(@, nExp + 1)]
    /\ exp' = [exp EXCEPT ![nExp + 1] =
                  [key |-> k, timer |-> "sleep", snap |-> 0, spawned |-> 0,
                   hRan |-> 0, toRan |-> 0,
                   atMsg |-> "none"]
                  @@ closures]
    /\ UNCHANGED delivered

\* the timer task wakes up and calls isExpecting(expectKey): under
\* expectLock it takes a copy of the key's list; without the key it ends
TimerFire(h) ==
    /\ exp[h].timer = "sleep"
    /\ LET cur == ExpectsAt(exp[h].key)
       IN exp' = [exp EXCEPT ![h].timer = IF cur = <<>> THEN "done" ELSE "checked",
                             ![h].snap = Len(cur)]
    /\ UNCHANGED <<expects, nExp, delivered>>

\* what the timer task does to s.expects under expectLock.  With more than
\* one handler in its copy it looks for i with &expects[i] == &processor: the
\* address of an element of the copied list is never the address of the
\* parameter processor, so nothing is removed.  Otherwise it deletes the key.
TimerRemove(ex, k, n) == IF n > 1 THEN ex ELSE DeleteExpect(ex, k)

\* the expect handler task started by process(): f(&msg)
RunHandlerCount(h) ==
    /\ exp[h].spawned > exp[h].hRan
    /\ exp' = [exp EXCEPT ![h].hRan = @ + 1]
    /\ UNCHANGED <<expects, nExp, delivered>>

\* process(), lines 501-509: deleteExpect(expectKey) and one task per handler
ProcessExpects(k) ==
    LET hs == Range(ExpectsAt(k))
    IN /\ expects' = DeleteExpect(expects, k)
       /\ exp' = [h \in DOMAIN exp |->
                    [exp[h] EXCEPT
                       !.spawned = IF h \in hs THEN @ + 1 ELSE @,
                       !.atMsg = IF exp[h].key = k /\ @ = "none"
                                 THEN exp[h].timer ELSE @]]
       /\ delivered' = IF k \in DOMAIN delivered /\ delivered[k] < MaxDelivered
                       THEN [delivered EXCEPT ![k] = @ + 1] ELSE delivered
       /\ UNCHANGED nExp

(***************************************************************************)
(* SpecExpect: callers of addExpect with handlers h_i and timeout          *)
(* callbacks to_i that only count their runs, and matching messages        *)
(***************************************************************************)
AddExpectCall(k) ==
    /\ AddExpect(k, Closure("count", "", FALSE, 0, 0, 0))
    /\ UNCHANGED <<commVars, lifeVars, auxVars>>

ExpectTimerFire(h) ==
    /\ exp[h].kind = "count"
    /\ TimerFire(h)
    /\ UNCHANGED <<commVars, lifeVars, auxVars>>

\* the timer task after isExpecting found the key: the removal, then except()
ExpectTimerExpire(h) ==
    /\ exp[h].timer = "checked"
    /\ exp[h].kind = "count"
    /\ expects' = TimerRemove(expects, exp[h].key, exp[h].snap)
    /\ exp' = [exp EXCEPT ![h].timer = "done", ![h].toRan = @ + 1]
    /\ UNCHANGED <<nExp, delivered, commVars, lifeVars, auxVars>>

\* a message whose expect key is k reaches process()
ExpectMessage(k) ==
    /\ delivered[k] < MaxDelivered
    /\ ProcessExpects(k)
    /\ UNCHANGED <<commVars, lifeVars, auxVars>>

ExpectRunHandler(h) ==
    /\ exp[h].kind = "count"
    /\ RunHandlerCount(h)
    /\ UNCHANGED <<commVars, lifeVars, auxVars>>

ExpectNext ==
    \/ \E k \in AliveKeys : AddExpectCall(k)
    \/ \E h \in DOMAIN exp : ExpectTimerFire(h)
    \/ \E h \in DOMAIN exp : ExpectTimerExpire(h)
    \/ \E k \in AliveKeys : ExpectMessage(k)
    \/ \E h \in DOMAIN exp : ExpectRunHandler(h)

CommIdle ==
    /\ commPc = [t \in Senders |-> "done"]
    /\ commOut = [t \in Senders |-> "w1"]
    /\ commSize = [t \in Senders |-> 0]
    /\ commLock = [t \in Senders |-> 0]
    /\ MasterCommLock = 0
    /\ CommLocks = [w \in Writers |-> 0]
    /\ lockHeld = [l \in LockIds |-> FALSE]
    /\ wire = [w \in Writers |-> <<>>]

(***************************************************************************)
(* internal/service/service.go: the service and its driver runtimes        *)
(***************************************************************************)
\* staged configurations: whether daemon.features names the emitter (as a
\* required feature), whether DiscoverFeatures returns "driver:d2", the
\* version of the daemon.drivers metadata (0: no metadata), of the driver
\* data and of the dynamic data.  daemon.featureMap always maps the emitter
\* to the driver "d1".
Configs ==
    [emitter : {"absent", "required"}, dynamic : BOOLEAN,
     meta : 0..2, data : 1..2, dyn : 1..2]

\* the configurations a service boots with: complete, and with one feature
BootConfigs ==
    {c \in Configs : /\ c.meta = 1 /\ c.data = 1 /\ c.dyn = 1
                     /\ (c.emitter = "absent") = c.dynamic}

\* the configurations Reload may find staged after `c`: they differ from it
\* in at most one item
ReloadConfigs(c) ==
    {n \in Configs :
        /\ Cardinality({i \in DOMAIN c : n[i] # c[i]}) <= 1
        /\ n.dyn # c.dyn => c.dynamic}

\* strings.HasPrefix(feature, "driver:")
IsDriverFeature(f) == f = "driver:d2"

\* getFeatureList: feature -> required, from daemon.features
FeatureList(c) == IF c.emitter = "absent" THEN {} ELSE {FeatureEmitter}

RequiredFeatures(c) == IF c.emitter = "required" THEN {FeatureEmitter} ELSE {}

\* DiscoverFeatures(s.config.Staged): the dynamic features with their data
Discovered(c) ==
    [f \in Features |-> IF IsDriverFeature(f) /\ c.dynamic THEN c.dyn ELSE 0]

\* the final feature list of loadAdditionalFeatures
FinalFeatures(c) == FeatureList(c) \cup {f \in Features : Discovered(c)[f] # 0}

\* the driver name of a feature: feature[7:] for "driver:" features, else
\* daemon.featureMap.<service>.<feature> or daemon.featureMap.global.<feature>
DriverNameOf(c, f) == IF IsDriverFeature(f) THEN "d2" ELSE "d1"

\* a runtime that does not exist
NoRt == [feature |-> "", service |-> "", driver |-> "", meta |-> <<>>,
         data |-> 0, dyn |-> 0, state |-> "none", proc |-> "none",
         opts |-> 0, stream |-> <<>>, sup |-> FALSE,
         by |-> "", loopAtLoad |-> FALSE, expected |-> FALSE,
         emitted |-> FALSE, aliveAt |-> "", wasAlive |-> FALSE]

\* driver.NewDriver(feature, driverMeta, driverData, dynamicData): a runtime
\* descriptor in state Loading, not started and owned by no service yet
NewDriver(f, c) ==
    [NoRt EXCEPT !.feature = f,
                 !.driver = DriverNameOf(c, f),
                 !.meta = <<DriverNameOf(c, f), c.meta>>,
                 !.data = c.data,
                 !.dyn = IF IsDriverFeature(f) THEN dynData[f] ELSE 0,
                 !.state = "Loading"]

\* a decision that does not compare the dynamic data
LoadOutcome_NoDynamicData(rts, f, old) ==
    IF cfg.meta = 0 THEN "error"
    ELSE LET new == NewDriver(f, cfg)
             driverMetaUnchanged == old # 0 /\ rts[old].meta = new.meta
             driverRunning == old # 0 /\ rts[old].state # "Failed"
         IN IF driverRunning /\ driverMetaUnchanged
            THEN IF rts[old].data = new.data
                 THEN "noop"
                 ELSE "hot"
            ELSE "cold"

\* loadFeature, lines 166-209: what it does with oldRuntime and the new
\* descriptor.  "error": the panic "unable to get driver metadata".
LoadOutcome(rts, f, old) ==
    IF cfg.meta = 0 THEN "error"
    ELSE LET new == NewDriver(f, cfg)
             driverMetaUnchanged == old # 0 /\ rts[old].meta = new.meta
             driverRunning == old # 0 /\ rts[old].state # "Failed"
         IN IF driverRunning /\ driverMetaUnchanged
            THEN IF rts[old].data = new.data /\ rts[old].dyn = new.dyn
                 THEN "noop"
                 ELSE "hot"
            ELSE "cold"

\* the deferred recover of loadFeature, lines 144-156: the runtime the
\* feature slot holds, if any, becomes Failed
RecoverRt(rts, slots, f) ==
    IF slots[f] # 0 THEN [rts EXCEPT ![slots[f]].state = "Failed"] ELSE rts

\* Runtime.SendOptions: command:options is written to the driver's stdin; a
\* write error (the process has exited) marks the runtime Failed
SendOptions(rts, r) ==
    IF rts[r].proc = "running"
    THEN [rts EXCEPT ![r].opts = @ + 1]
    ELSE [rts EXCEPT ![r].state = "Failed"]

\* a hotReload that forgets the dynamic data
HotReloadRt_NoDynamicData(rts, old, new) ==
    SendOptions([rts EXCEPT ![old].data = new.data,
                            ![old].state = "Reloading"], old)

\* hotReload: the old runtime takes the new data in place, becomes
\* Reloading and is sent command:options again
HotReloadRt(rts, old, new) ==
    SendOptions([rts EXCEPT ![old].data = new.data,
                            ![old].dyn = new.dyn,
                            ![old].state = "Reloading"], old)

\* a coldReload that files the runtime under another feature
SlotKey_Other(new) == CHOOSE g \in Features : g # new.feature

\* coldReload, line 224: the key of setDriverRuntime
SlotKey(new) == new.feature

\* coldReload, lines 222-231: Start(s.name) runs the process, which is sent
\* command:options, and a supervising task waits for its exit
ColdReloadRt(rts, new, by) ==
    [rts EXCEPT ![nRt + 1] =
        [new EXCEPT !.service = ServiceName, !.proc = "running", !.opts = 1,
                    !.sup = TRUE, !.by = by, !.loopAtLoad = loopRunning]]

\* dipper.LockCheckDeleteMap: delete the entry only if it holds `check`
CheckDelete(slots, f, check) ==
    IF slots[f] = check THEN [slots EXCEPT ![f] = 0] ELSE slots

\* coldReload, lines 224 and 234: setDriverRuntime, then for an old runtime
\* checkDeleteDriverRuntime(feature, nil), which matches no runtime
ColdReloadSlots(slots, new, old) ==
    LET set == [slots EXCEPT ![SlotKey(new)] = nRt + 1]
    IN IF old # 0 THEN CheckDelete(set, new.feature, 0) ELSE set

Task(kind, r, pc, old, count, chain, subject) ==
    [kind |-> kind, r |-> r, pc |-> pc, old |-> old, count |-> count,
     chain |-> chain, subject |-> subject]

\* the task that closes a replaced or unused runtime after
\* DriverGracefulTimeout
CloseTask(r) == Task("close", r, "", 0, 0, 0, "")

\* coldReload, lines 233-245: the task that closes the old runtime
Replaced(slots, rts, f) ==
    IF LoadOutcome(rts, f, slots[f]) = "cold" /\ slots[f] # 0
    THEN {CloseTask(slots[f])} ELSE {}

\* a record of the last call of loadFeature: the feature, oldRuntime and
\* what lines 194-198 read from it, the new descriptor, the branch taken
NoLoad ==
    [tick |-> 0, feature |-> "", old |-> 0, outcome |-> "none",
     oldState |-> "none", oldMeta |-> <<>>, oldData |-> 0, oldDyn |-> 0,
     newMeta |-> <<>>, newData |-> 0, newDyn |-> 0]

Observed(slots, rts, f, out) ==
    LET old == slots[f]
        o == IF old # 0 THEN rts[old] ELSE NoRt
        new == NewDriver(f, cfg)
    IN [tick |-> 1 - lastLoad.tick, feature |-> f, old |-> old, outcome |-> out,
        oldState |-> o.state, oldMeta |-> o.meta, oldData |-> o.data,
        oldDyn |-> o.dyn,
        newMeta |-> new.meta, newData |-> new.data, newDyn |-> new.dyn]

\* loadFeature(f) from the slots and the runtimes its caller left: its
\* effect on the runtimes, the slots and the emitter registry
LoadFeature(slots, rts, f, by) ==
    LET new == NewDriver(f, cfg)
        old == slots[f]
        out == LoadOutcome(rts, f, old)
    IN /\ lastLoad' = Observed(slots, rts, f, out)
       /\ CASE out = "cold" ->
                 /\ nRt < MaxRt
                 /\ nRt' = nRt + 1
                 /\ rt' = ColdReloadRt(rts, new, by)
                 /\ driverRuntimes' = ColdReloadSlots(slots, new, old)
                 /\ Emitters' = IF old # 0 /\ f = FeatureEmitter
                                THEN FALSE ELSE Emitters
            [] out = "hot" ->
                 /\ rt' = HotReloadRt(rts, old, new)
                 /\ driverRuntimes' = slots
                 /\ UNCHANGED <<nRt, Emitters>>
            [] out = "noop" ->
                 /\ rt' = rts
                 /\ driverRuntimes' = slots
                 /\ UNCHANGED <<nRt, Emitters>>
            [] out = "error" ->
                 /\ rt' = RecoverRt(rts, slots, f)
                 /\ driverRuntimes' = slots
                 /\ UNCHANGED <<nRt, Emitters>>

\* the runtime loadFeature leaves the feature with
Loaded(out, f) == IF out = "cold" THEN nRt + 1 ELSE driverRuntimes[f]

Failed(out) == out = "error"
Affected(out) == out \in {"cold", "hot"}

Running == ~fatal

\* the state NewService leaves, before start(), with a budget of events from
\* outside and of recovery chains
LifeInitWith(budget) ==
    /\ dynData = [f \in Features |-> 0]
    /\ driverRuntimes = [f \in Features |-> 0]
    /\ rt = [r \in RtIds |-> NoRt]
    /\ nRt = 0
    /\ tasks = {}
    /\ main = [pc |-> "start", boot |-> TRUE, todo |-> {}, f |-> "", r |-> 0,
               stage |-> "", loaded |-> {}]
    /\ loopRunning = FALSE
    /\ Emitters = FALSE
    /\ healthy = FALSE
    /\ rollBacks = 0
    /\ fatal = FALSE
    /\ left = budget
    /\ lastLoad = NoLoad

LifeInit == LifeInitWith([events |-> MaxEvents, chains |-> MaxChains])

\* the expect table of NewService: empty
LifeExpectInit ==
    /\ expects = [k \in AliveKeys |-> <<>>]
    /\ exp = [h \in 1..MaxLifeExpects |-> NoExp]
    /\ nExp = 0
    /\ delivered = [k \in AliveKeys |-> 0]

\* ---- the task of start() and Reload() ----
\* main.stage is the last stage given to config.AdvanceStage and main.loaded
\* the features loadFeature was called for since the last
\* AdvanceStage(Booting)

\* start(): AdvanceStage(Booting), getFeatureList, into loadRequiredFeatures
MainStart ==
    /\ Running
    /\ main.pc = "start"
    /\ main' = [main EXCEPT !.pc = "req", !.todo = RequiredFeatures(cfg),
                            !.stage = "Booting", !.loaded = {}]
    /\ UNCHANGED <<cfg, dynData, driverRuntimes, rt, nRt, tasks, loopRunning,
                   Emitters, healthy, rollBacks, fatal, left, lastLoad,
                   expVars, commVars, auxVars>>

\* Reload(): a new configuration is staged; AdvanceStage(Booting),
\* getFeatureList, into loadRequiredFeatures with boot = false
Reload(c) ==
    /\ Running
    /\ main.pc = "idle"
    /\ left.events > 0
    /\ left' = [left EXCEPT !.events = @ - 1]
    /\ cfg' = c
    /\ main' = [main EXCEPT !.pc = "req", !.boot = FALSE,
                            !.todo = RequiredFeatures(c),
                            !.stage = "Booting", !.loaded = {}]
    /\ UNCHANGED <<dynData, driverRuntimes, rt, nRt, tasks, loopRunning,
                   Emitters, healthy, rollBacks, fatal, lastLoad,
                   expVars, commVars, auxVars>>

\* loadFeature for the next feature of the loop of loadRequiredFeatures or
\* loadAdditionalFeatures, and what the loop does with its result.  A
\* required feature that fails is fatal at boot and panics in Reload, whose
\* recover sets healthy = false and calls config.RollBack().  An optional
\* feature that fails is logged and skipped.
MainLoad ==
    /\ Running
    /\ main.pc \in {"req", "opt"}
    /\ \E f \in main.todo :
          /\ LoadFeature(driverRuntimes, rt, f, "main")
          /\ tasks' = tasks \cup Replaced(driverRuntimes, rt, f)
          /\ LET required == main.pc = "req"
                 out == LoadOutcome(rt, f, driverRuntimes[f])
                 loaded == [main EXCEPT !.f = f, !.r = Loaded(out, f),
                                        !.loaded = @ \cup {f}]
             IN CASE required /\ Failed(out) /\ main.boot ->
                       /\ fatal' = TRUE
                       /\ main' = [main EXCEPT !.loaded = @ \cup {f}]
                       /\ UNCHANGED <<healthy, rollBacks>>
                  [] required /\ Failed(out) /\ ~main.boot ->
                       /\ healthy' = FALSE
                       /\ rollBacks' = rollBacks + 1
                       /\ main' = [main EXCEPT !.pc = "idle", !.todo = {},
                                               !.loaded = @ \cup {f}]
                       /\ UNCHANGED fatal
                  [] Affected(out) ->
                       /\ main' = [loaded EXCEPT !.pc = IF required THEN "req_expect"
                                                        ELSE "opt_expect"]
                       /\ UNCHANGED <<fatal, healthy, rollBacks>>
                  [] OTHER ->
                       /\ main' = [main EXCEPT !.todo = @ \ {f},
                                               !.loaded = @ \cup {f}]
                       /\ UNCHANGED <<fatal, healthy, rollBacks>>
    /\ UNCHANGED <<cfg, dynData, loopRunning, left, expVars, commVars, auxVars>>

\* the runtime a load left now has its expect registered
MarkExpected(r) == IF r # 0 THEN [rt EXCEPT ![r].expected = TRUE] ELSE rt

\* loadRequiredFeatures / loadAdditionalFeatures: addExpect("state:alive:" +
\* driverName, ...) after loadFeature has returned affected
MainAddExpect ==
    /\ Running
    /\ main.pc \in {"req_expect", "opt_expect"}
    /\ AddExpect(ExpectKey("state", "alive", DriverNameOf(cfg, main.f)),
                 Closure(IF main.pc = "req_expect" THEN "required" ELSE "optional",
                         main.f, main.boot, main.r, 0, 0))
    /\ rt' = MarkExpected(main.r)
    /\ main' = [main EXCEPT !.pc = IF main.pc = "req_expect" THEN "req" ELSE "opt",
                            !.todo = @ \ {main.f}]
    /\ UNCHANGED <<cfg, dynData, driverRuntimes, nRt, tasks, loopRunning,
                   Emitters, healthy, rollBacks, fatal, left, lastLoad, commVars, auxVars>>

\* AdvanceStage(Discovering) without waiting for the loop of
\* loadRequiredFeatures to end
MainRequiredDone_Early ==
    /\ Running
    /\ main.pc = "req"
    /\ loopRunning' = TRUE
    /\ dynData' = Discovered(cfg)
    /\ main' = [main EXCEPT !.pc = "opt", !.stage = "Discovering",
                            !.todo = FinalFeatures(cfg) \ RequiredFeatures(cfg)]
    /\ UNCHANGED <<cfg, driverRuntimes, rt, nRt, tasks, Emitters, healthy,
                   rollBacks, fatal, left, lastLoad, expVars, commVars, auxVars>>

\* after loadRequiredFeatures: at boot `go s.serviceLoop()`; then
\* AdvanceStage(Discovering) and the start of loadAdditionalFeatures, which
\* stores DiscoverFeatures' result and adds its names to the feature list
MainRequiredDone ==
    /\ Running
    /\ main.pc = "req"
    /\ main.todo = {}
    /\ loopRunning' = TRUE
    /\ dynData' = Discovered(cfg)
    /\ main' = [main EXCEPT !.pc = "opt", !.stage = "Discovering",
                            !.todo = FinalFeatures(cfg) \ RequiredFeatures(cfg)]
    /\ UNCHANGED <<cfg, driverRuntimes, rt, nRt, tasks, Emitters, healthy,
                   rollBacks, fatal, left, lastLoad, expVars, commVars, auxVars>>

\* removeUnusedFeatures: every runtime whose feature left the list is closed
\* after DriverGracefulTimeout; checkDeleteDriverRuntime(feature, nil)
\* matches no runtime
Unused == {f \in Features : driverRuntimes[f] # 0 /\ f \notin FinalFeatures(cfg)}

\* after loadAdditionalFeatures: AdvanceStage(Serving), ServiceReload,
\* healthy = true and, in Reload, removeUnusedFeatures
MainServing ==
    /\ Running
    /\ main.pc = "opt"
    /\ main.todo = {}
    /\ healthy' = TRUE
    /\ main' = [main EXCEPT !.pc = "idle", !.stage = "Serving"]
    /\ IF main.boot
       THEN UNCHANGED <<tasks, Emitters>>
       ELSE /\ tasks' = tasks \cup {CloseTask(driverRuntimes[f]) : f \in Unused}
            /\ Emitters' = IF FeatureEmitter \in Unused THEN FALSE ELSE Emitters
    /\ UNCHANGED <<cfg, dynData, driverRuntimes, rt, nRt, loopRunning,
                   rollBacks, fatal, left, lastLoad, expVars, commVars, auxVars>>

\* ---- the driver processes ----

InSlot(r) == r # 0 /\ rt[r].state # "none" /\ driverRuntimes[rt[r].feature] = r

\* a started driver answers command:options with state:alive
DriverEmitAlive(r) ==
    /\ Running
    /\ rt[r].proc = "running"
    /\ rt[r].opts > 0
    /\ rt' = [rt EXCEPT ![r].opts = @ - 1,
                        ![r].stream = Append(@, "alive"),
                        ![r].emitted = TRUE]
    /\ UNCHANGED <<cfg, dynData, driverRuntimes, nRt, tasks, main, loopRunning,
                   Emitters, healthy, rollBacks, fatal, left, lastLoad,
                   expVars, commVars, auxVars>>

\* a driver asks to be cold reloaded with state:cold
DriverEmitCold(r) ==
    /\ Running
    /\ rt[r].proc = "running"
    /\ rt[r].state = "Alive"
    /\ left.events > 0
    /\ left' = [left EXCEPT !.events = @ - 1]
    /\ rt' = [rt EXCEPT ![r].stream = Append(@, "cold")]
    /\ UNCHANGED <<cfg, dynData, driverRuntimes, nRt, tasks, main, loopRunning,
                   Emitters, healthy, rollBacks, fatal, lastLoad,
                   expVars, commVars, auxVars>>

\* a driver process exits on its own; its stream is closed
DriverExit(r) ==
    /\ Running
    /\ rt[r].proc = "running"
    /\ left.events > 0
    /\ left' = [left EXCEPT !.events = @ - 1]
    /\ rt' = [rt EXCEPT ![r].proc = "exited"]
    /\ UNCHANGED <<cfg, dynData, driverRuntimes, nRt, tasks, main, loopRunning,
                   Emitters, healthy, rollBacks, fatal, lastLoad,
                   expVars, commVars, auxVars>>

\* runtime.Handler.Close(): the process is stopped
Closed(rts, r) ==
    IF rts[r].proc = "running" THEN [rts EXCEPT ![r].proc = "exited"] ELSE rts

\* the task coldReload and removeUnusedFeatures start for an old runtime:
\* Handler.Close() after DriverGracefulTimeout
CloseRun(t) ==
    /\ Running
    /\ t \in tasks
    /\ t.kind = "close"
    /\ rt' = Closed(rt, t.r)
    /\ tasks' = tasks \ {t}
    /\ UNCHANGED <<cfg, dynData, driverRuntimes, nRt, main, loopRunning,
                   Emitters, healthy, rollBacks, fatal, left, lastLoad,
                   expVars, commVars, auxVars>>

\* a supervising task that empties the slot of its feature whoever holds it
SupervisorExit_AnyHolder(r) ==
    /\ Running
    /\ rt[r].sup
    /\ rt[r].proc = "exited"
    /\ rt' = [rt EXCEPT ![r].sup = FALSE]
    /\ driverRuntimes' = [driverRuntimes EXCEPT ![rt[r].feature] = 0]
    /\ UNCHANGED <<cfg, dynData, nRt, tasks, main, loopRunning,
                   Emitters, healthy, rollBacks, fatal, left, lastLoad,
                   expVars, commVars, auxVars>>

\* the supervising task of coldReload, lines 225-231: Handler.Wait() returns
\* when the process has exited, then checkDeleteDriverRuntime(Feature, runtime)
SupervisorExit(r) ==
    /\ Running
    /\ rt[r].sup
    /\ rt[r].proc = "exited"
    /\ rt' = [rt EXCEPT ![r].sup = FALSE]
    /\ driverRuntimes' = CheckDelete(driverRuntimes, rt[r].feature, r)
    /\ UNCHANGED <<cfg, dynData, nRt, tasks, main, loopRunning,
                   Emitters, healthy, rollBacks, fatal, left, lastLoad,
                   expVars, commVars, auxVars>>

\* ---- serviceLoop and process ----

\* how the state:alive of runtime r met the expect table, for the first one
\* process() sees: before the loader of r had registered its expect, matched
\* by a handler, or with neither
AliveAt(r, k) ==
    IF rt[r].aliveAt # "" THEN rt[r].aliveAt
    ELSE IF ~rt[r].expected THEN "early"
    ELSE IF ExpectsAt(k) # <<>> THEN "matched"
    ELSE "late"

\* one iteration of serviceLoop that receives a message from a runtime that
\* is in a feature slot and not Failed, and process() of that message:
\* deleteExpect and one task per handler for state:alive, the responder
\* coldReloadDriverRuntime in a task of its own for state:cold
LoopMessage(r) ==
    /\ Running
    /\ loopRunning
    /\ InSlot(r)
    /\ rt[r].state # "Failed"
    /\ rt[r].stream # <<>>
    /\ LET subject == Head(rt[r].stream)
           k == ExpectKey("state", subject, rt[r].driver)
       IN IF subject = "alive"
          THEN /\ ProcessExpects(k)
               /\ rt' = [rt EXCEPT ![r].stream = Tail(@),
                                   ![r].aliveAt = AliveAt(r, k)]
               /\ UNCHANGED tasks
          ELSE /\ rt' = [rt EXCEPT ![r].stream = Tail(@)]
               /\ tasks' = tasks \cup {Task("cold", r, "start", 0, 0, 0, subject)}
               /\ UNCHANGED expVars
    /\ UNCHANGED <<cfg, dynData, driverRuntimes, nRt, main, loopRunning,
                   Emitters, healthy, rollBacks, fatal, left, lastLoad, commVars, auxVars>>

\* one iteration of serviceLoop that finds the stream of a runtime closed:
\* the emitter is unregistered, and a runtime that was Alive is recovered by
\* `go loadFailedDriverRuntime(runtime, 0)`
LoopClosed(r) ==
    /\ Running
    /\ loopRunning
    /\ InSlot(r)
    /\ rt[r].state # "Failed"
    /\ rt[r].stream = <<>>
    /\ rt[r].proc = "exited"
    /\ Emitters' = IF rt[r].feature = FeatureEmitter THEN FALSE ELSE Emitters
    /\ IF rt[r].state = "Alive"
       THEN /\ left.chains > 0
            /\ left' = [left EXCEPT !.chains = @ - 1]
            /\ tasks' = tasks \cup
                 {Task("recover", r, "start", 0, 0, left.chains, "")}
       ELSE /\ Emitters' # Emitters
            /\ UNCHANGED <<left, tasks>>
    /\ UNCHANGED <<cfg, dynData, driverRuntimes, rt, nRt, main, loopRunning,
                   healthy, rollBacks, fatal, lastLoad, expVars, commVars, auxVars>>

\* ---- coldReloadDriverRuntime, the responder of state:cold ----

\* checkDeleteDriverRuntime(d.Feature, d), d.Handler.Close() and
\* loadFeature(d.Feature); dipper.Must panics on an error, and the panic ends
\* the task.  No expect is registered.
ColdReloadDriverRuntime(t) ==
    /\ Running
    /\ t \in tasks
    /\ t.kind = "cold"
    /\ LET f == rt[t.r].feature
           slots == CheckDelete(driverRuntimes, f, t.r)
           rts == Closed(rt, t.r)
       IN /\ LoadFeature(slots, rts, f, "cold")
          /\ tasks' = (tasks \ {t}) \cup Replaced(slots, rts, f)
    /\ UNCHANGED <<cfg, dynData, main, loopRunning, healthy, rollBacks, fatal,
                   left, expVars, commVars, auxVars>>

\* ---- loadFailedDriverRuntime(d, count) ----

\* retry(): another attempt after DriverRetryBackoff, or Fatalf
Retry(d, count, chain) ==
    IF count < DriverRetryCount
    THEN {Task("recover", d, "start", 0, count + 1, chain, "")}
    ELSE {}

RetryFatal(count) == count >= DriverRetryCount

\* d.State = DriverFailed and loadFeature(d.Feature): an error goes to
\* retry(), anything else to addExpect
LoadFailedDriverRuntime(t) ==
    /\ Running
    /\ t \in tasks
    /\ t.kind = "recover"
    /\ t.pc = "start"
    /\ LET f == rt[t.r].feature
           rts == [rt EXCEPT ![t.r].state = "Failed"]
           out == LoadOutcome(rts, f, driverRuntimes[f])
           spawned == Replaced(driverRuntimes, rts, f)
       IN /\ LoadFeature(driverRuntimes, rts, f, "recover")
          /\ IF Failed(out)
             THEN /\ tasks' = (tasks \ {t}) \cup spawned
                               \cup Retry(t.r, t.count, t.chain)
                  /\ fatal' = RetryFatal(t.count)
             ELSE /\ tasks' = (tasks \ {t}) \cup spawned
                               \cup {[t EXCEPT !.pc = "expect",
                                                !.old = Loaded(out, rt[t.r].feature)]}
                  /\ UNCHANGED fatal
    /\ UNCHANGED <<cfg, dynData, main, loopRunning, healthy, rollBacks,
                   left, expVars, commVars, auxVars>>

\* addExpect("state:alive:" + driverName, ..., retry), driverName being the
\* name of the crashed runtime's driver
RecoverExpect(t) ==
    /\ Running
    /\ t \in tasks
    /\ t.kind = "recover"
    /\ t.pc = "expect"
    /\ AddExpect(ExpectKey("state", "alive", rt[t.r].driver),
                 Closure("recovery", rt[t.r].feature, FALSE, t.r, t.count, t.chain))
    /\ rt' = MarkExpected(t.old)
    /\ tasks' = tasks \ {t}
    /\ UNCHANGED <<cfg, dynData, driverRuntimes, nRt, main, loopRunning,
                   Emitters, healthy, rollBacks, fatal, left, lastLoad, commVars, auxVars>>

\* ---- the closures given to addExpect ----

LifeKinds == {"required", "optional", "recovery"}

\* s.driverRuntimes[feature].State = state: a nil pointer dereference when
\* the slot is empty, which the task's SafeExitOnError swallows
SetSlotState(f, state) ==
    IF driverRuntimes[f] # 0
    THEN [rt EXCEPT ![driverRuntimes[f]].state = state,
                    ![driverRuntimes[f]].wasAlive = @ \/ state = "Alive"]
    ELSE rt

\* the timer task of addExpect after time.Sleep(timeout): without the key it
\* ends
LifeTimerEnd(h) ==
    /\ Running
    /\ exp[h].kind \in LifeKinds
    /\ exp[h].timer = "sleep"
    /\ ExpectsAt(exp[h].key) = <<>>
    /\ exp' = [exp EXCEPT ![h].timer = "done"]
    /\ UNCHANGED <<expects, nExp, delivered, lifeVars, commVars, auxVars>>

\* the timer task of addExpect after time.Sleep(timeout), the key being in
\* the table: the removal, then the except closure.  Required feature:
\* Fatalf at boot, else State = Failed and config.RollBack().  Optional
\* feature: State = Failed.  Recovery: retry().
LifeTimerExpire(h) ==
    /\ Running
    /\ exp[h].kind \in LifeKinds
    /\ exp[h].timer = "sleep"
    /\ ExpectsAt(exp[h].key) # <<>>
    /\ expects' = TimerRemove(expects, exp[h].key, Len(ExpectsAt(exp[h].key)))
    /\ exp' = [exp EXCEPT ![h].timer = "done", ![h].toRan = @ + 1,
                          ![h].snap = Len(ExpectsAt(exp[h].key))]
    /\ LET f == exp[h].feature
       IN CASE exp[h].kind = "required" /\ exp[h].boot ->
                 /\ fatal' = TRUE
                 /\ UNCHANGED <<rt, rollBacks, tasks>>
            [] exp[h].kind = "required" /\ ~exp[h].boot ->
                 /\ rt' = SetSlotState(f, "Failed")
                 /\ rollBacks' = IF driverRuntimes[f] # 0
                                 THEN rollBacks + 1 ELSE rollBacks
                 /\ UNCHANGED <<fatal, tasks>>
            [] exp[h].kind = "optional" ->
                 /\ rt' = SetSlotState(f, "Failed")
                 /\ UNCHANGED <<fatal, rollBacks, tasks>>
            [] exp[h].kind = "recovery" ->
                 /\ tasks' = tasks \cup Retry(exp[h].d, exp[h].count, exp[h].chain)
                 /\ fatal' = RetryFatal(exp[h].count)
                 /\ UNCHANGED <<rt, rollBacks>>
    /\ UNCHANGED <<nExp, delivered, cfg, dynData, driverRuntimes, nRt, main,
                   loopRunning, Emitters, healthy, left, lastLoad, commVars, auxVars>>

\* the expect handler started by process():
\* s.driverRuntimes[feature].State = DriverAlive, and the emitter registers
LifeRunHandler(h) ==
    /\ Running
    /\ exp[h].kind \in LifeKinds
    /\ RunHandlerCount(h)
    /\ rt' = SetSlotState(exp[h].feature, "Alive")
    /\ Emitters' = IF driverRuntimes[exp[h].feature] # 0
                      /\ exp[h].feature = FeatureEmitter
                   THEN TRUE ELSE Emitters
    /\ UNCHANGED <<cfg, dynData, driverRuntimes, nRt, tasks, main, loopRunning,
                   healthy, rollBacks, fatal, left, lastLoad, commVars, auxVars>>

Next ==
    \/ MainStart
    \/ \E c \in ReloadConfigs(cfg) : Reload(c)
    \/ MainLoad
    \/ MainAddExpect
    \/ MainRequiredDone
    \/ MainServing
    \/ \E r \in RtIds : DriverEmitAlive(r)
    \/ \E r \in RtIds : DriverEmitCold(r)
    \/ \E r \in RtIds : DriverExit(r)
    \/ \E t \in tasks : CloseRun(t)
    \/ \E r \in RtIds : SupervisorExit(r)
    \/ \E r \in RtIds : LoopMessage(r)
    \/ \E r \in RtIds : LoopClosed(r)
    \/ \E t \in tasks : ColdReloadDriverRuntime(t)
    \/ \E t \in tasks : LoadFailedDriverRuntime(t)
    \/ \E t \in tasks : RecoverExpect(t)
    \/ \E h \in DOMAIN exp : LifeTimerEnd(h)
    \/ \E h \in DOMAIN exp : LifeTimerExpire(h)
    \/ \E h \in DOMAIN exp : LifeRunHandler(h)

(***************************************************************************)
(* internal/service/service.go: loadFeature called by several tasks at     *)
(* once for one feature, statement by statement                            *)
(***************************************************************************)
MaxLoadCalls == 2
MaxLoadRt == 3
MaxLoadEvents == 1

LoadCalls == 1..MaxLoadCalls
LoadRtIds == 1..MaxLoadRt

\* the configuration the service booted with, and the feature of the calls
LoadBoot ==
    [emitter |-> "required", dynamic |-> FALSE, meta |-> 1, data |-> 1, dyn |-> 1]

\* a call of loadFeature(feature) by task c that has not begun
LoadCall(c) == Task("load", 0, "read", 0, c, 0, FeatureEmitter)

\* the runtime the boot left in the slot, by now Alive or Failed, its
\* process running or exited
BootRt(state, proc) ==
    [NewDriver(FeatureEmitter, LoadBoot) EXCEPT
        !.service = ServiceName, !.state = state, !.proc = proc, !.sup = TRUE,
        !.by = "main", !.loopAtLoad = TRUE, !.expected = TRUE,
        !.emitted = TRUE, !.aliveAt = "matched", !.wasAlive = TRUE]

\* a booted service whose slot holds the first runtime, or has lost it to
\* the supervising task, when MaxLoadCalls tasks call loadFeature
LoadInit ==
    /\ cfg \in {c \in ReloadConfigs(LoadBoot) : c.emitter = "required"}
    /\ dynData = [f \in Features |-> 0]
    /\ \E state \in {"Alive", "Failed"}, proc \in {"running", "exited"},
          removed \in BOOLEAN :
          /\ removed => proc = "exited"
          /\ rt = [r \in LoadRtIds |->
                     IF r = 1
                     THEN [BootRt(state, proc) EXCEPT !.sup = ~removed]
                     ELSE NoRt]
          /\ driverRuntimes = [f \in Features |->
                                 IF f = FeatureEmitter /\ ~removed THEN 1 ELSE 0]
    /\ nRt = 1
    /\ tasks = {LoadCall(c) : c \in LoadCalls}
    /\ main = [pc |-> "idle", boot |-> FALSE, todo |-> {}, f |-> "", r |-> 0,
               stage |-> "Serving", loaded |-> {}]
    /\ loopRunning = TRUE
    /\ Emitters \in BOOLEAN
    /\ healthy = TRUE
    /\ rollBacks = 0
    /\ fatal = FALSE
    /\ left = [events |-> MaxLoadEvents, chains |-> 0]
    /\ lastLoad = NoLoad

\* line 159: oldRuntime := s.getDriverRuntime(feature)
LoadRead(t) ==
    /\ t \in tasks
    /\ t.kind = "load"
    /\ t.pc = "read"
    /\ tasks' = (tasks \ {t}) \cup
                  {[t EXCEPT !.old = driverRuntimes[t.subject], !.pc = "decide"]}
    /\ UNCHANGED <<cfg, dynData, driverRuntimes, rt, nRt, main, loopRunning,
                   Emitters, healthy, rollBacks, fatal, left, lastLoad,
                   expVars, commVars, auxVars>>

\* lines 166-222: the new descriptor and the decision over oldRuntime as it
\* is now.  Hot reload and "not affected" end the call; the panic of line
\* 186 ends it in the deferred recover; a cold reload starts the process
LoadDecide(t) ==
    /\ t \in tasks
    /\ t.kind = "load"
    /\ t.pc = "decide"
    /\ LET f == t.subject
           new == NewDriver(f, cfg)
           out == LoadOutcome(rt, f, t.old)
       IN CASE out = "cold" ->
                 /\ nRt < MaxLoadRt
                 /\ nRt' = nRt + 1
                 /\ rt' = [ColdReloadRt(rt, new, "load") EXCEPT ![nRt + 1].sup = FALSE]
                 /\ tasks' = (tasks \ {t}) \cup
                               {[t EXCEPT !.r = nRt + 1, !.pc = "set"]}
            [] out = "hot" ->
                 /\ rt' = HotReloadRt(rt, t.old, new)
                 /\ tasks' = tasks \ {t}
                 /\ UNCHANGED nRt
            [] out = "noop" ->
                 /\ tasks' = tasks \ {t}
                 /\ UNCHANGED <<rt, nRt>>
            [] out = "error" ->
                 /\ rt' = RecoverRt(rt, driverRuntimes, f)
                 /\ tasks' = tasks \ {t}
                 /\ UNCHANGED nRt
    /\ UNCHANGED <<cfg, dynData, driverRuntimes, main, loopRunning,
                   Emitters, healthy, rollBacks, fatal, left, lastLoad,
                   expVars, commVars, auxVars>>

\* lines 224-231: setDriverRuntime(feature, new) and the supervising task
LoadSet(t) ==
    /\ t \in tasks
    /\ t.kind = "load"
    /\ t.pc = "set"
    /\ driverRuntimes' = [driverRuntimes EXCEPT ![SlotKey(rt[t.r])] = t.r]
    /\ rt' = [rt EXCEPT ![t.r].sup = TRUE]
    /\ tasks' = (tasks \ {t}) \cup {[t EXCEPT !.pc = "after"]}
    /\ UNCHANGED <<cfg, dynData, nRt, main, loopRunning,
                   Emitters, healthy, rollBacks, fatal, left, lastLoad,
                   expVars, commVars, auxVars>>

\* lines 233-245: for an old runtime checkDeleteDriverRuntime(feature, nil),
\* the emitter unregistered, and the task that closes the old runtime
LoadAfter(t) ==
    /\ t \in tasks
    /\ t.kind = "load"
    /\ t.pc = "after"
    /\ IF t.old # 0
       THEN /\ driverRuntimes' = CheckDelete(driverRuntimes, t.subject, 0)
            /\ Emitters' = IF t.subject = FeatureEmitter THEN FALSE ELSE Emitters
            /\ tasks' = (tasks \ {t}) \cup {CloseTask(t.old)}
       ELSE /\ tasks' = tasks \ {t}
            /\ UNCHANGED <<driverRuntimes, Emitters>>
    /\ UNCHANGED <<cfg, dynData, rt, nRt, main, loopRunning,
                   healthy, rollBacks, fatal, left, lastLoad,
                   expVars, commVars, auxVars>>

LoadNext ==
    \/ \E t \in tasks : LoadRead(t)
    \/ \E t \in tasks : LoadDecide(t)
    \/ \E t \in tasks : LoadSet(t)
    \/ \E t \in tasks : LoadAfter(t)
    \/ \E t \in tasks : CloseRun(t)
    \/ \E r \in LoadRtIds : SupervisorExit(r)
    \/ \E r \in LoadRtIds : DriverExit(r)

(***************************************************************************)
(* internal/service/service.go: handleRPCCall and handleRPCReturn          *)
(***************************************************************************)

MaxRpcMsgs == 2
MaxRpcSwaps == 1

\* the runtimes of the service: one for the emitter feature, and two for
\* the driver feature, the second replacing the first in a cold reload
RpcRuntimes == 1..3
RpcFeatureOf(r) == IF r = 1 THEN FeatureEmitter ELSE "driver:d2"
RpcIds == {"x", "y"}
RpcPayloads == {"p", "q"}
NoCaller == "-"

\* the rpc messages a driver can emit: labels.feature, labels.caller and
\* labels.rpcID are whatever the driver wrote
RpcMessages ==
    [from : RpcRuntimes, subject : {"call", "return"}, feature : Features,
     caller : Features \cup {NoCaller}, rpcID : RpcIds, payload : RpcPayloads]

\* handleRPCCall: m.Labels["caller"] = from.Feature
StampCaller_Keep(m) == m

StampCaller(m) == [m EXCEPT !.caller = RpcFeatureOf(m.from)]

\* getDriverRuntime(feature): the runtime in the slot, 0 for nil
GetDriverRuntime(slots, feature) == slots[feature]

RpcInit ==
    /\ rpcSlots \in {s \in [Features -> RpcRuntimes \cup {0}] :
                        /\ s[FeatureEmitter] \in {0, 1}
                        /\ s["driver:d2"] \in {0, 2}}
    /\ rpcInbox = [r \in RpcRuntimes |-> <<>>]
    /\ rpcPending = {}
    /\ rpcReturned = <<>>
    /\ rpcPanics = 0
    /\ rpcLeft = [msgs |-> MaxRpcMsgs, swaps |-> MaxRpcSwaps]

\* serviceLoop: a started runtime gives an rpc message and process() starts
\* the responder of its key in a task of its own
RpcReceive(m) ==
    /\ rpcLeft.msgs > 0
    /\ \E f \in Features : rpcSlots[f] >= m.from /\ RpcFeatureOf(m.from) = f
    /\ m \notin rpcPending
    /\ rpcPending' = rpcPending \cup {m}
    /\ rpcLeft' = [rpcLeft EXCEPT !.msgs = @ - 1]
    /\ UNCHANGED <<rpcSlots, rpcInbox, rpcReturned, rpcPanics, callVars, notRpc>>

\* coldReload installs a new runtime for the driver feature, or a
\* supervisor removes the runtime of a feature
RpcSwap(f) ==
    /\ rpcLeft.swaps > 0
    /\ rpcSlots[f] # 0
    /\ rpcSlots' = [rpcSlots EXCEPT ![f] = IF @ = 2 THEN 3 ELSE 0]
    /\ rpcLeft' = [rpcLeft EXCEPT !.swaps = @ - 1]
    /\ UNCHANGED <<rpcInbox, rpcPending, rpcReturned, rpcPanics, callVars, notRpc>>

\* SendMessage on the runtime found, or the panic of a call on nil, which
\* SafeExitOnError swallows in the responder's task
RpcSendTo(target, m) ==
    IF target = 0
    THEN /\ rpcPanics' = rpcPanics + 1
         /\ UNCHANGED rpcInbox
    ELSE /\ rpcInbox' = [rpcInbox EXCEPT ![target] = Append(@, m)]
         /\ UNCHANGED rpcPanics

\* HandleReturn(msg) that hands the payload to whichever Call is waiting
HandleReturn_AnyCall(table, result, m) ==
    IF \E id \in RpcIds : table[id] = "waiting"
    THEN LET id == CHOOSE i \in RpcIds : table[i] = "waiting"
         IN [table |-> [table EXCEPT ![id] = "returned"],
             result |-> [result EXCEPT ![id] = m.payload]]
    ELSE [table |-> table, result |-> result]

\* HandleReturn(msg): labels.rpcID is matched to the pending one-shot table
\* and the payload handed to the waiting Call; an unmatched return is dropped
HandleReturn(table, result, m) ==
    IF table[m.rpcID] = "waiting"
    THEN [table |-> [table EXCEPT ![m.rpcID] = "returned"],
          result |-> [result EXCEPT ![m.rpcID] = m.payload]]
    ELSE [table |-> table, result |-> result]

HandleRPCCall(m) ==
    /\ m \in rpcPending
    /\ m.subject = "call"
    /\ rpcPending' = rpcPending \ {m}
    /\ RpcSendTo(GetDriverRuntime(rpcSlots, m.feature), StampCaller(m))
    /\ UNCHANGED <<rpcSlots, rpcReturned, rpcLeft, callVars, notRpc>>

HandleRPCReturn(m) ==
    /\ m \in rpcPending
    /\ m.subject = "return"
    /\ rpcPending' = rpcPending \ {m}
    /\ IF m.caller = NoCaller
       THEN /\ rpcReturned' = Append(rpcReturned, m)
            /\ callTable' = HandleReturn(callTable, callResult, m).table
            /\ callResult' = HandleReturn(callTable, callResult, m).result
            /\ UNCHANGED <<rpcInbox, rpcPanics>>
       ELSE /\ RpcSendTo(GetDriverRuntime(rpcSlots, m.caller), m)
            /\ UNCHANGED <<rpcReturned, callVars>>
    /\ UNCHANGED <<rpcSlots, rpcLeft, notRpc>>

RpcNext ==
    \/ \E m \in RpcMessages : RpcReceive(m)
    \/ \E f \in Features : RpcSwap(f)
    \/ \E m \in RpcMessages : HandleRPCCall(m)
    \/ \E m \in RpcMessages : HandleRPCReturn(m)

\* no rpc message is being routed
RpcIdle ==
    /\ rpcSlots = [f \in Features |-> 0]
    /\ rpcInbox = [r \in RpcRuntimes |-> <<>>]
    /\ rpcPending = {}
    /\ rpcReturned = <<>>
    /\ rpcPanics = 0
    /\ rpcLeft = [msgs |-> 0, swaps |-> 0]

\* the service has made no Call
CallIdle ==
    /\ callTable = [id \in RpcIds |-> "none"]
    /\ callResult = [id \in RpcIds |-> "none"]

TimeoutError == "timeout"

\* Call(feature, method, params) by the service: a fresh rpcID, an rpc:call
\* given to the runtime of the feature, and a one-shot in the pending table
Call(id, f) ==
    /\ callTable[id] = "none"
    /\ rpcSlots[f] # 0
    /\ callTable' = [callTable EXCEPT ![id] = "waiting"]
    /\ rpcInbox' = [rpcInbox EXCEPT ![rpcSlots[f]] =
                        Append(@, [from |-> 0, subject |-> "call", feature |-> f,
                                   caller |-> NoCaller, rpcID |-> id,
                                   payload |-> "p"])]
    /\ UNCHANGED <<callResult, rpcSlots, rpcPending, rpcReturned, rpcPanics,
                   rpcLeft, notRpc>>

\* the ceiling of a pending Call passes: its one-shot fires with a timeout
\* error
CallTimeout(id) ==
    /\ callTable[id] = "waiting"
    /\ callTable' = [callTable EXCEPT ![id] = "timeout"]
    /\ callResult' = [callResult EXCEPT ![id] = TimeoutError]
    /\ UNCHANGED <<rpcVars, notRpc>>

CallNext ==
    \/ \E id \in RpcIds, f \in Features : Call(id, f)
    \/ \E id \in RpcIds : CallTimeout(id)
    \/ \E m \in RpcMessages : m.subject = "return" /\ RpcReceive(m)
    \/ \E m \in RpcMessages : HandleRPCReturn(m)

(***************************************************************************)
(* internal/service/service.go: handleReload, Drain and handleDriverStop   *)
(***************************************************************************)

MaxReloadMsgs == 2

DrainRts == 1..2
DrainTasks == 1..MaxReloadMsgs
DaemonIDs == {"absent", "same", "other"}

NoGroup == [set |-> FALSE, n |-> 0]
NoDrainTask == [pc |-> "none", cnt |-> 0, how |-> "", advanced |-> 0]
NoReload == [daemonID |-> "", force |-> FALSE, did |-> ""]

\* the runtimes Drain counts and sends command:stop to
Draining(states) == {r \in DrainRts : states[r] \notin {"Failed", "Stopped"}}

DrainInit ==
    /\ drnRt \in [DrainRts -> {"Alive", "Loading", "Failed", "Stopped"}]
    /\ drnMaster \in BOOLEAN
    /\ drnHealthy = TRUE
    /\ drnGroup = NoGroup
    /\ drnTask = [t \in DrainTasks |-> NoDrainTask]
    /\ drnInbox = [r \in DrainRts |-> 0]
    /\ drnPending = [r \in DrainRts |-> 0]
    /\ drnRefresh = 0
    /\ drnShutDown = FALSE
    /\ drnPanics = 0
    /\ drnLeft = MaxReloadMsgs
    /\ drnLast = NoReload

\* the process has not called os.Exit
DrainRunning == ~drnShutDown

\* what handleReload does with a message: nothing for another daemon's id,
\* config.Refresh() for a reload without force on the master, a task that
\* drains for a reload with force
ReloadReaction_AnyService(daemonID, force, master) ==
    IF daemonID = "other" THEN "nothing"
    ELSE IF ~force THEN "refresh"
    ELSE "drain"

ReloadReaction(daemonID, force, master) ==
    IF daemonID = "other" THEN "nothing"
    ELSE IF ~force THEN IF master THEN "refresh" ELSE "nothing"
    ELSE "drain"

\* handleReload(from, m)
HandleReload(daemonID, force) ==
    /\ DrainRunning
    /\ drnLeft > 0
    /\ drnLeft' = drnLeft - 1
    /\ LET did == ReloadReaction(daemonID, force, drnMaster)
           t == MaxReloadMsgs - drnLeft + 1
       IN /\ drnLast' = [daemonID |-> daemonID, force |-> force, did |-> did]
          /\ drnRefresh' = IF did = "refresh" THEN drnRefresh + 1 ELSE drnRefresh
          /\ drnTask' = IF did = "drain"
                        THEN [drnTask EXCEPT ![t].pc = "sleep"]
                        ELSE drnTask
    /\ UNCHANGED <<drnRt, drnMaster, drnHealthy, drnGroup, drnInbox, drnPending,
                   drnShutDown, drnPanics, notDrain>>

\* Drain(), after the second of handleReload's task: healthy = false and
\* the count of the runtimes that are neither Failed nor Stopped
DrainCount(t) ==
    /\ DrainRunning
    /\ drnTask[t].pc = "sleep"
    /\ drnHealthy' = FALSE
    /\ drnTask' = [drnTask EXCEPT ![t].cnt = Cardinality(Draining(drnRt)),
                                  ![t].pc = IF Draining(drnRt) = {}
                                            THEN "advance" ELSE "group"]
    /\ UNCHANGED <<drnRt, drnMaster, drnGroup, drnInbox, drnPending, drnRefresh,
                   drnShutDown, drnPanics, drnLeft, drnLast, notDrain>>

\* Drain(): a new drainingGroup with Add(cnt), and command:stop to every
\* runtime that is neither Failed nor Stopped now
DrainSend(t) ==
    /\ DrainRunning
    /\ drnTask[t].pc = "group"
    /\ drnGroup' = [set |-> TRUE, n |-> drnTask[t].cnt]
    /\ drnInbox' = [r \in DrainRts |->
                        IF r \in Draining(drnRt) THEN drnInbox[r] + 1
                        ELSE drnInbox[r]]
    /\ drnTask' = [drnTask EXCEPT ![t].pc = "wait"]
    /\ UNCHANGED <<drnRt, drnMaster, drnHealthy, drnPending, drnRefresh,
                   drnShutDown, drnPanics, drnLeft, drnLast, notDrain>>

\* a wait that ends only when the group's counter is zero
DrainWait_NoTimeout(t) ==
    /\ DrainRunning
    /\ drnTask[t].pc = "wait"
    /\ drnGroup.n = 0
    /\ drnTask' = [drnTask EXCEPT ![t].pc = "advance", ![t].how = "stopped"]
    /\ UNCHANGED <<drnRt, drnMaster, drnHealthy, drnGroup, drnInbox, drnPending,
                   drnRefresh, drnShutDown, drnPanics, drnLeft, drnLast,
                   notDrain>>

\* Drain(): WaitGroupWaitTimeout(s.drainingGroup, time.Second) ends when the
\* counter is zero or the second has passed
DrainWait(t) ==
    /\ DrainRunning
    /\ drnTask[t].pc = "wait"
    /\ drnTask' = [drnTask EXCEPT ![t].pc = "advance",
                                  ![t].how = IF drnGroup.n = 0 THEN "stopped"
                                             ELSE "timeout"]
    /\ UNCHANGED <<drnRt, drnMaster, drnHealthy, drnGroup, drnInbox, drnPending,
                   drnRefresh, drnShutDown, drnPanics, drnLeft, drnLast,
                   notDrain>>

\* Drain(): s.config.AdvanceStage(s.name, config.StageDrained), and Drain
\* returns
DrainAdvance(t) ==
    /\ DrainRunning
    /\ drnTask[t].pc = "advance"
    /\ drnTask' = [drnTask EXCEPT ![t].pc = "drained", ![t].advanced = @ + 1]
    /\ UNCHANGED <<drnRt, drnMaster, drnHealthy, drnGroup, drnInbox, drnPending,
                   drnRefresh, drnShutDown, drnPanics, drnLeft, drnLast,
                   notDrain>>

\* handleReload's task after Drain(): daemon.ShutDown() and os.Exit(0) on
\* the master
ReloadExit(t) ==
    /\ DrainRunning
    /\ drnTask[t].pc = "drained"
    /\ drnTask' = [drnTask EXCEPT ![t].pc = "end"]
    /\ drnShutDown' = drnMaster
    /\ UNCHANGED <<drnRt, drnMaster, drnHealthy, drnGroup, drnInbox, drnPending,
                   drnRefresh, drnPanics, drnLeft, drnLast, notDrain>>

\* a driver answers a command:stop with state:stopped, or takes it and
\* keeps silent
DriverStopped(r, answers) ==
    /\ DrainRunning
    /\ drnInbox[r] > 0
    /\ drnInbox' = [drnInbox EXCEPT ![r] = @ - 1]
    /\ drnPending' = IF answers THEN [drnPending EXCEPT ![r] = @ + 1]
                     ELSE drnPending
    /\ UNCHANGED <<drnRt, drnMaster, drnHealthy, drnGroup, drnTask, drnRefresh,
                   drnShutDown, drnPanics, drnLeft, drnLast, notDrain>>

\* handleDriverStop(from, m): a runtime that is not Stopped becomes Stopped
\* and drainingGroup.Done() is called.  Done() on the nil group of a service
\* that never drained panics; Done() on a counter of zero leaves the counter
\* at -1 and panics
HandleDriverStop(r) ==
    /\ DrainRunning
    /\ drnPending[r] > 0
    /\ drnPending' = [drnPending EXCEPT ![r] = @ - 1]
    /\ IF drnRt[r] # "Stopped"
       THEN /\ drnRt' = [drnRt EXCEPT ![r] = "Stopped"]
            /\ IF drnGroup.set /\ drnGroup.n > 0
               THEN /\ drnGroup' = [drnGroup EXCEPT !.n = @ - 1]
                    /\ UNCHANGED drnPanics
               ELSE /\ drnPanics' = drnPanics + 1
                    /\ drnGroup' = IF drnGroup.set
                                   THEN [drnGroup EXCEPT !.n = @ - 1]
                                   ELSE drnGroup
       ELSE UNCHANGED <<drnRt, drnGroup, drnPanics>>
    /\ UNCHANGED <<drnMaster, drnHealthy, drnTask, drnInbox, drnRefresh,
                   drnShutDown, drnLeft, drnLast, notDrain>>

\* the most state:stopped messages of one runtime that wait for process()
MaxStops == 2

\* a driver emits state:stopped that no command:stop asked for; serviceLoop
\* does not read the stream of a Failed runtime
DriverStops(r) ==
    /\ DrainRunning
    /\ drnRt[r] # "Failed"
    /\ drnPending[r] < MaxStops
    /\ drnPending' = [drnPending EXCEPT ![r] = @ + 1]
    /\ UNCHANGED <<drnRt, drnMaster, drnHealthy, drnGroup, drnTask, drnInbox,
                   drnRefresh, drnShutDown, drnPanics, drnLeft, drnLast,
                   notDrain>>

DrainNext ==
    \/ \E d \in DaemonIDs, force \in BOOLEAN : HandleReload(d, force)
    \/ \E t \in DrainTasks : DrainCount(t)
    \/ \E t \in DrainTasks : DrainSend(t)
    \/ \E t \in DrainTasks : DrainWait(t)
    \/ \E t \in DrainTasks : DrainAdvance(t)
    \/ \E t \in DrainTasks : ReloadExit(t)
    \/ \E r \in DrainRts, answers \in BOOLEAN : DriverStopped(r, answers)
    \/ \E r \in DrainRts : HandleDriverStop(r)

\* the steps of handleReload's task, Drain() included
DrainStep(t) ==
    DrainCount(t) \/ DrainSend(t) \/ DrainWait(t) \/ DrainAdvance(t)
        \/ ReloadExit(t)

\* no reload message has been received
DrainIdle ==
    /\ drnRt = [r \in DrainRts |-> "Stopped"]
    /\ drnMaster = FALSE
    /\ drnHealthy = FALSE
    /\ drnGroup = NoGroup
    /\ drnTask = [t \in DrainTasks |-> NoDrainTask]
    /\ drnInbox = [r \in DrainRts |-> 0]
    /\ drnPending = [r \in DrainRts |-> 0]
    /\ drnRefresh = 0
    /\ drnShutDown = FALSE
    /\ drnPanics = 0
    /\ drnLeft = 0
    /\ drnLast = NoReload

(***************************************************************************)
(* internal/service/service.go: process and its tasks                      *)
(***************************************************************************)

MaxProcMsgs == 2

ProcMsgs == 1..MaxProcMsgs
\* the expect handlers and the responders registered for a message's keys
ProcHandlers == {"expect1", "expect2", "responder1", "responder2"}
ProcKind(x) == IF x \in {"expect1", "expect2"} THEN "expect" ELSE "responder"
\* expects are taken from the table by the first message of their key;
\* the responders stay
HandlersOf(m) ==
    IF m = 1 THEN ProcHandlers ELSE {x \in ProcHandlers : ProcKind(x) = "responder"}
\* the chain of a message: two transformers, then the router
ChainLen == 3

\* a task of process() that does not defer SafeExitOnError for responders
Wrapped_NotResponders(kind) == kind # "responder"

\* every task process() starts defers dipper.SafeExitOnError
Wrapped(kind) == TRUE

\* how a call in a task ends: a panic under SafeExitOnError is recovered
\* and ends the task, a panic without it ends the process
Outcome(kind, panics) ==
    IF ~panics THEN "done"
    ELSE IF Wrapped(kind) THEN "recovered"
    ELSE "crash"

ProcInit ==
    /\ prcDispatched = 0
    /\ prcTask = [m \in ProcMsgs |-> [x \in ProcHandlers |-> "none"]]
    /\ prcChain = [m \in ProcMsgs |-> [pos |-> 0, state |-> "none"]]
    /\ prcCrashed = FALSE

\* serviceLoop gives the next message to process(), which starts a task
\* for every expect handler, one for every responder, and one for the
\* transformers and the router
LoopDispatch ==
    /\ ~prcCrashed
    /\ prcDispatched < MaxProcMsgs
    /\ prcDispatched' = prcDispatched + 1
    /\ prcTask' = [prcTask EXCEPT ![prcDispatched + 1] =
                        [x \in ProcHandlers |->
                            IF x \in HandlersOf(prcDispatched + 1)
                            THEN "ready" ELSE "none"]]
    /\ prcChain' = [prcChain EXCEPT ![prcDispatched + 1] =
                        [pos |-> 0, state |-> "ready"]]
    /\ UNCHANGED <<prcCrashed, notProc>>

\* the task of an expect handler or a responder calls it
ProcRunHandler(m, x, panics) ==
    /\ ~prcCrashed
    /\ prcTask[m][x] = "ready"
    /\ LET out == Outcome(ProcKind(x), panics)
       IN /\ prcTask' = [prcTask EXCEPT ![m][x] = out]
          /\ prcCrashed' = (out = "crash")
    /\ UNCHANGED <<prcDispatched, prcChain, notProc>>

\* the task of the chain calls the next transformer, or the router after
\* the last one
ProcChainStep(m, panics) ==
    /\ ~prcCrashed
    /\ prcChain[m].state = "ready"
    /\ LET out == Outcome("chain", panics)
           pos == prcChain[m].pos + 1
       IN /\ prcChain' = [prcChain EXCEPT ![m] =
                            [pos |-> pos,
                             state |-> IF out = "done" /\ pos < ChainLen
                                       THEN "ready" ELSE out]]
          /\ prcCrashed' = (out = "crash")
    /\ UNCHANGED <<prcDispatched, prcTask, notProc>>

ProcNext ==
    \/ LoopDispatch
    \/ \E m \in ProcMsgs, x \in ProcHandlers, panics \in BOOLEAN :
          ProcRunHandler(m, x, panics)
    \/ \E m \in ProcMsgs, panics \in BOOLEAN : ProcChainStep(m, panics)

\* the tasks that can run do run
ProcFair ==
    /\ WF_vars(LoopDispatch)
    /\ \A m \in ProcMsgs :
          /\ WF_vars(\E panics \in BOOLEAN : ProcChainStep(m, panics))
          /\ \A x \in ProcHandlers :
                WF_vars(\E panics \in BOOLEAN : ProcRunHandler(m, x, panics))

\* no message is being processed
ProcIdle ==
    /\ prcDispatched = MaxProcMsgs
    /\ prcTask = [m \in ProcMsgs |-> [x \in ProcHandlers |-> "none"]]
    /\ prcChain = [m \in ProcMsgs |-> [pos |-> 0, state |-> "none"]]
    /\ prcCrashed = FALSE

\* nothing but the service's own tasks runs
AuxIdle == CodecIdle /\ RpcIdle /\ CallIdle /\ DrainIdle /\ ProcIdle

Init == LifeInit /\ cfg \in BootConfigs /\ LifeExpectInit /\ CommIdle /\ AuxIdle

Spec == Init /\ [][Next]_vars

\* the service of SpecComm and SpecExpect is constructed and not started
LifeIdle ==
    /\ LifeInit
    /\ cfg = [emitter |-> "absent", dynamic |-> FALSE,
              meta |-> 1, data |-> 1, dyn |-> 1]

(***************************************************************************)
(* Specifications                                                          *)
(***************************************************************************)
InitComm == CommInit /\ ExpectInit /\ LifeIdle /\ AuxIdle

NextComm == CommNext /\ UNCHANGED <<expVars, lifeVars, auxVars>>

SpecComm == InitComm /\ [][NextComm]_vars

InitExpect == ExpectInit /\ CommIdle /\ LifeIdle /\ AuxIdle

SpecExpect == InitExpect /\ [][ExpectNext]_vars

InitCodec ==
    CodecInit /\ CommIdle /\ ExpectInit /\ LifeIdle /\ RpcIdle /\ CallIdle
        /\ DrainIdle /\ ProcIdle

SpecCodec == InitCodec /\ [][CodecNext]_vars

InitRpc ==
    RpcInit /\ CallIdle /\ CommIdle /\ ExpectInit /\ LifeIdle /\ CodecIdle
        /\ DrainIdle /\ ProcIdle

SpecRpc == InitRpc /\ [][RpcNext]_vars

InitDrain ==
    DrainInit /\ CommIdle /\ ExpectInit /\ LifeIdle /\ CodecIdle /\ RpcIdle
        /\ CallIdle /\ ProcIdle

\* reloads and drains; a task that can take a step takes it
SpecDrain ==
    /\ InitDrain
    /\ [][DrainNext]_vars
    /\ \A t \in DrainTasks : WF_vars(DrainStep(t))

\* the service with one event from outside and room for a second recovery
\* task
MaxCrashEvents == 1
MaxCrashChains == 2

InitCrash ==
    /\ LifeInitWith([events |-> MaxCrashEvents, chains |-> MaxCrashChains])
    /\ cfg \in BootConfigs
    /\ LifeExpectInit
    /\ CommIdle
    /\ AuxIdle

SpecCrash == InitCrash /\ [][Next]_vars

\* senders while writers are removed from the registry
NextRemove ==
    \/ NextComm
    \/ \E w \in Writers :
          RemoveComm(w) /\ UNCHANGED <<expVars, lifeVars, auxVars>>

SpecRemove == InitComm /\ [][NextRemove]_vars

\* tasks that call loadFeature for one feature at the same time
InitLoad == LoadInit /\ LifeExpectInit /\ CommIdle /\ AuxIdle

SpecLoad == InitLoad /\ [][LoadNext]_vars

\* reloads and drains with drivers that also emit state:stopped unasked
StopNext ==
    \/ DrainNext
    \/ \E r \in DrainRts : DriverStops(r)

SpecStop == InitDrain /\ [][StopNext]_vars

InitProc ==
    ProcInit /\ CommIdle /\ ExpectInit /\ LifeIdle /\ CodecIdle /\ RpcIdle
        /\ CallIdle /\ DrainIdle

SpecProc == InitProc /\ [][ProcNext]_vars /\ ProcFair

\* the service's Calls; the timer of a pending Call runs to its end
SpecCall ==
    /\ InitRpc
    /\ [][CallNext]_vars
    /\ \A id \in RpcIds : WF_vars(CallTimeout(id))

(***************************************************************************)
(* Claims about dipper/comm.go                                             *)
(***************************************************************************)
\* the chunks of a writer form whole frames: every payload chunk directly
\* follows the header of the same message, and every header that announces a
\* payload is directly followed by it, unless it is the last chunk written
\* (its sender is then still writing)
WellFramed(s) ==
    \A i \in 1..Len(s) :
        /\ s[i].kind = "payload" =>
              /\ i > 1
              /\ s[i-1].kind = "hdr"
              /\ s[i-1].from = s[i].from
        /\ (s[i].kind = "hdr" /\ s[i].size > 0) =>
              \/ /\ i = Len(s)
                 /\ commPc[s[i].from] = "write_payload"
              \/ /\ i < Len(s)
                 /\ s[i+1].kind = "payload"
                 /\ s[i+1].from = s[i].from

\* C1: whatever the number of concurrent senders on a writer, the bytes on
\* the writer are a concatenation of whole frames, each header immediately
\* followed by its own payload and by nothing of another message.
C1_FramesNeverInterleave == \A w \in Writers : WellFramed(wire[w])

\* a sender is in the middle of its frame while another sender to the same
\* writer is inside LockComm waiting for the writer's mutex
C1_Witness ==
    \E t, u \in Senders :
        /\ t # u
        /\ commOut[t] = commOut[u]
        /\ commPc[t] = "write_payload"
        /\ commPc[u] = "lc_lock"

AllSent == \A t \in Senders : commPc[t] = "done"

FramesOn(w) == Cardinality({i \in 1..Len(wire[w]) : wire[w][i].kind = "hdr"})

\* C2: N concurrent sends to one writer all return and leave exactly N frames
\* on it: no state is reached in which a sender has not returned and no
\* sender can take a step.
C2_EverySendReturns ==
    /\ AllSent \/ ENABLED CommNext
    /\ AllSent => \A w \in Writers :
                     FramesOn(w) = Cardinality({t \in Senders : commOut[t] = w})


(***************************************************************************)
(* Claims about the expect table                                           *)
(***************************************************************************)
ExpOn(k) == {h \in DOMAIN exp : exp[h].kind # "none" /\ exp[h].key = k}

\* every addExpect on k came before the one message, and the message was
\* processed while every timer was still asleep
OneMessageBeforeTimers(k) ==
    /\ delivered[k] = 1
    /\ ExpOn(k) # {}
    /\ \A h \in ExpOn(k) : exp[h].atMsg = "sleep"

\* C6: addExpect(key, h_i, t, to_i) calls followed by exactly one matching
\* message that is processed before any timer fires: every h_i is started
\* once and runs at most once (exactly once when its task has run), and no
\* to_i ever runs.
C6_MessageRunsHandlersOnce ==
    \A k \in AliveKeys :
        OneMessageBeforeTimers(k) =>
            \A h \in ExpOn(k) :
                /\ exp[h].spawned = 1
                /\ exp[h].hRan <= 1
                /\ exp[h].toRan = 0
                /\ exp[h].timer \in {"sleep", "done"}

\* two expects on a key, one message before the timers, both handlers ran
\* and both timers have ended
C6_Witness ==
    \E k \in AliveKeys :
        /\ OneMessageBeforeTimers(k)
        /\ Cardinality(ExpOn(k)) >= 2
        /\ \A h \in ExpOn(k) : exp[h].hRan = 1 /\ exp[h].timer = "done"

\* C7: addExpect calls on a key that no matching message ever reaches:
\* every to_i runs exactly once after its timer fires (a timer that has
\* ended has run its callback once) and no h_i runs.
C7_TimeoutsRunOnce ==
    \A k \in AliveKeys :
        delivered[k] = 0 =>
            \A h \in ExpOn(k) :
                /\ exp[h].hRan = 0 /\ exp[h].spawned = 0
                /\ exp[h].toRan <= 1
                /\ exp[h].timer = "done" => exp[h].toRan = 1

(***************************************************************************)
(* Claims about the driver runtimes of a service                           *)
(***************************************************************************)
\* C3: in every reachable state every feature slot of the service is empty
\* or holds a runtime whose feature is the slot's feature and whose service
\* is the service's name
C3_SlotHoldsOwnRuntime ==
    \A f \in Features :
        \/ driverRuntimes[f] = 0
        \/ /\ rt[driverRuntimes[f]].feature = f
           /\ rt[driverRuntimes[f]].service = ServiceName

\* a slot holds a runtime that crash recovery loaded in place of another one
C3_Witness ==
    \E f \in Features :
        /\ driverRuntimes[f] > 1
        /\ rt[driverRuntimes[f]].by = "recover"

\* a step in which loadFeature ran
LoadStep == lastLoad'.tick # lastLoad.tick

\* the decision table of loadFeature over what it read
TableSays(l) ==
    IF l.old = 0 \/ l.oldState = "Failed" \/ l.oldMeta # l.newMeta THEN "cold"
    ELSE IF l.oldData # l.newData \/ l.oldDyn # l.newDyn THEN "hot"
    ELSE "noop"

\* what a step did to the feature of the load: started a new process and
\* put it in the slot; updated the old runtime in place and sent it the
\* options again (or failed to send them); or nothing, the loop of
\* loadRequiredFeatures or loadAdditionalFeatures going on to the next
\* feature without an expect
DidCold(l) ==
    /\ nRt' = nRt + 1
    /\ driverRuntimes'[l.feature] = nRt'
    /\ rt'[nRt'].proc = "running"

DidHot(l) ==
    /\ nRt' = nRt
    /\ driverRuntimes'[l.feature] = l.old
    /\ rt'[l.old].data = l.newData
    /\ rt'[l.old].dyn = l.newDyn
    /\ \/ rt'[l.old].state = "Reloading" /\ rt'[l.old].opts = rt[l.old].opts + 1
       \/ rt'[l.old].state = "Failed" /\ rt'[l.old].opts = rt[l.old].opts

DidNothing(l) ==
    /\ nRt' = nRt
    /\ driverRuntimes'[l.feature] = l.old
    /\ rt'[l.old].data = l.oldData
    /\ rt'[l.old].dyn = l.oldDyn
    /\ rt'[l.old].state = l.oldState
    /\ rt'[l.old].opts = rt[l.old].opts
    /\ rt'[l.old].proc = rt[l.old].proc
    /\ main'.pc = main.pc

\* C4: whenever loadFeature builds a descriptor, it cold reloads when there
\* is no old runtime, the old runtime is Failed or the meta differs; it hot
\* reloads when the old runtime is not Failed, the meta is equal and the data
\* or the dynamic data differs; and it does nothing (no change of the old
\* runtime, no message, not affected) when all three are equal
C4_DecisionTable ==
    [][(LoadStep /\ lastLoad'.outcome # "error") =>
          CASE TableSays(lastLoad') = "cold" -> DidCold(lastLoad')
            [] TableSays(lastLoad') = "hot" -> DidHot(lastLoad')
            [] TableSays(lastLoad') = "noop" -> DidNothing(lastLoad')]_vars

\* loadFeature found a feature whose driver has new dynamic data only
C4_Witness ==
    /\ lastLoad.outcome = "hot"
    /\ lastLoad.oldData = lastLoad.newData
    /\ lastLoad.oldDyn # lastLoad.newDyn

\* a hot reload leaves the same runtime in the slot, with the new data and
\* dynamic data, and starts no process
HotInPlace(l) ==
    /\ driverRuntimes'[l.feature] = driverRuntimes[l.feature]
    /\ driverRuntimes'[l.feature] = l.old
    /\ rt'[l.old].data = l.newData
    /\ rt'[l.old].dyn = l.newDyn
    /\ nRt' = nRt
    /\ rt'[l.old].proc = rt[l.old].proc

\* a cold reload leaves in the slot a runtime other than the one that was
\* there
ColdNewIdentity(l) ==
    /\ driverRuntimes'[l.feature] # 0
    /\ driverRuntimes'[l.feature] # driverRuntimes[l.feature]
    /\ driverRuntimes'[l.feature] # l.old

\* C5, as stated: a cold reload leaves in the feature's slot a runtime other
\* than the one that was there; a hot reload leaves the same runtime there,
\* with the new data and dynamic data, in state Reloading, and starts no
\* process
C5_HotLeavesReloading ==
    [][LoadStep =>
          /\ lastLoad'.outcome = "cold" => ColdNewIdentity(lastLoad')
          /\ lastLoad'.outcome = "hot" =>
                /\ HotInPlace(lastLoad')
                /\ rt'[lastLoad'.old].state = "Reloading"]_vars

\* C5, amended: a cold reload leaves in the feature's slot a runtime other
\* than the one that was there; a hot reload leaves the same runtime there,
\* with the new data and dynamic data, and starts no process; it leaves the
\* runtime in state Reloading when its process is running, and in state
\* Failed when the process has exited and the options cannot be written
C5_ReloadIdentity ==
    [][LoadStep =>
          /\ lastLoad'.outcome = "cold" => ColdNewIdentity(lastLoad')
          /\ lastLoad'.outcome = "hot" =>
                /\ HotInPlace(lastLoad')
                /\ rt'[lastLoad'.old].state =
                      IF rt[lastLoad'.old].proc = "running"
                      THEN "Reloading" ELSE "Failed"]_vars

\* a hot reload has replaced data and dynamic data of a runtime that stays
\* in its slot
C5_Witness ==
    /\ lastLoad.outcome = "hot"
    /\ lastLoad.oldData # lastLoad.newData
    /\ driverRuntimes[lastLoad.feature] = lastLoad.old
    /\ rt[lastLoad.old].state = "Reloading"
    /\ rt[lastLoad.old].data = lastLoad.newData

\* nothing is left that could still make a runtime Alive: start() or
\* Reload() has returned, no task, no sleeping timer, no expect handler to
\* run, no message in a stream
Quiet ==
    /\ main.pc = "idle"
    /\ tasks = {}
    /\ \A h \in DOMAIN exp : exp[h].timer # "sleep" /\ exp[h].spawned = exp[h].hRan
    /\ \A r \in RtIds : rt[r].stream = <<>> /\ rt[r].opts = 0

\* C8: a runtime that was cold loaded into its slot by start(), Reload() or
\* crash recovery while the service loop was running, and whose state:alive
\* reached process() before the loader had registered the expect, has been
\* Alive once nothing is left to do for it
C8_EarlyAliveNotLost ==
    \A r \in RtIds :
        (/\ rt[r].by \in {"main", "recover"}
         /\ rt[r].loopAtLoad
         /\ rt[r].aliveAt = "early"
         /\ InSlot(r)
         /\ Quiet)
        => rt[r].wasAlive

\* the timer task of expect h ends in this step
TimerEnds(h) == exp[h].timer = "sleep" /\ exp'[h].timer = "done"

\* C9: when the ready timeout of a required feature loaded by Reload ends
\* and the driver has not produced state:alive, its process having exited
\* and its slot having been removed, config.RollBack() is called once, the
\* slot is left in state Failed and the process does not exit
C9_TimeoutRollsBack ==
    [][\A h \in DOMAIN exp :
          (/\ TimerEnds(h)
           /\ exp[h].kind = "required"
           /\ ~exp[h].boot
           /\ ~rt[exp[h].d].emitted
           /\ rt[exp[h].d].proc = "exited"
           /\ driverRuntimes[exp[h].feature] = 0)
          => /\ rollBacks' = rollBacks + 1
             /\ driverRuntimes'[exp[h].feature] # 0
             /\ rt'[driverRuntimes'[exp[h].feature]].state = "Failed"
             /\ ~fatal']_vars

\* nothing of recovery chain c is left: no task, no sleeping timer, no expect
\* handler to run
ChainQuiet(c) ==
    /\ \A t \in tasks : t.kind = "recover" => t.chain # c
    /\ \A h \in DOMAIN exp :
          (exp[h].kind = "recovery" /\ exp[h].chain = c)
          => (exp[h].timer # "sleep" /\ exp[h].spawned = exp[h].hRan)

\* C10: the recovery of a crashed driver does not stop while the process
\* runs on and no runtime loaded for the feature after the crash has been
\* Alive
C10_RecoveryEndsAliveOrFatal ==
    \A h \in DOMAIN exp :
        (/\ exp[h].kind = "recovery"
         /\ ChainQuiet(exp[h].chain)
         /\ ~fatal)
        => \E r \in RtIds :
              /\ r > exp[h].d
              /\ rt[r].feature = exp[h].feature
              /\ rt[r].wasAlive

\* C20: no task holds MasterCommLock while it waits for a writer's mutex
\* that another task holds
C20_MasterLockNeverHeldBlocked ==
    \A t \in Senders :
        ~(/\ MasterCommLock = t
          /\ commPc[t] = "lc_lock"
          /\ lockHeld[commLock[t]])

\* the service has a runtime in its emitter slot whose state is Alive
EmitterAlive ==
    /\ driverRuntimes[FeatureEmitter] # 0
    /\ rt[driverRuntimes[FeatureEmitter]].state = "Alive"

\* C14: in every reachable state the service has an entry in Emitters only
\* while the runtime in its emitter slot is Alive
C14_EmittersOnlyWhileAlive == Emitters => EmitterAlive

\* the order of the stages: Booting first and after Serving, Discovering
\* after Booting, Serving after Discovering
StageOrder ==
    {<<"", "Booting">>, <<"Booting", "Discovering">>,
     <<"Discovering", "Serving">>, <<"Serving", "Booting">>}

\* a step in which the task of start() or Reload() calls loadFeature
MainLoads ==
    /\ lastLoad' # lastLoad
    /\ main'.loaded # main.loaded
    /\ main'.loaded = main.loaded \cup {lastLoad'.feature}

Fetched ==
    \/ codecPc = "raw" /\ codecMsg.IsRaw
    \/ codecPanic = "FetchRawMessage"

\* the message read is the message written, and the reader stopped at the
\* end of its frame; a payload of no bytes is read as a nil Payload
SameMessage ==
    /\ codecPanic = ""
    /\ codecMsg.Channel = codecIn.channel
    /\ codecMsg.Subject = codecIn.subject
    /\ codecMsg.Payload.bytes = codecIn.payload
    /\ codecMsg.Size = Len(codecIn.payload)
    /\ codecMsg.IsRaw
    /\ codecWire = codecIn.next

\* C15 as stated: for every channel and subject without whitespace and
\* every payload, reading what SendRawMessage wrote yields the same
\* message and consumes exactly its frame
C15_RoundTripAnyToken == Fetched => SameMessage

\* C15: for every non-empty channel and subject without whitespace and
\* every payload, reading what SendRawMessage wrote yields the same
\* channel, subject and payload bytes, Size = len(payload) and IsRaw, and
\* consumes exactly the bytes of the frame
C15_RoundTrip ==
    (Fetched /\ codecIn.channel # <<>> /\ codecIn.subject # <<>>)
        => SameMessage

\* a frame with a two-digit size, read back with the next frame's bytes
\* left on the stream
C15_Witness ==
    /\ codecPc = "raw"
    /\ codecMsg.IsRaw
    /\ codecMsg.Size = LongPayloadLen
    /\ codecIn.channel # <<>>
    /\ codecWire = codecIn.next
    /\ codecWire # <<>>

\* C16: DeserializePayload applied to a message it has already decoded
\* raises no error
C16_DeserializeIdempotent ==
    ~(codecPanic = "DeserializePayload" /\ codecMsg.Payload.kind = "decoded")

(***************************************************************************)
(* Claims about the rpc responders                                         *)
(***************************************************************************)

\* runtime t is given message m and nothing else changes hands
GivenTo(t, m) ==
    /\ rpcInbox' = [rpcInbox EXCEPT ![t] = Append(@, m)]
    /\ rpcReturned' = rpcReturned

\* C11: an rpc:call from runtime A with labels.feature = B is sent to the
\* runtime installed for B with labels.caller set to A's feature, whatever
\* caller A supplied; an rpc:return with labels.caller = A other than "-"
\* is sent unchanged to the runtime installed for A; an rpc:return with
\* labels.caller = "-" is handed to HandleReturn and sent to no runtime
C11_RPCRouted ==
    [][\A m \in rpcPending \ rpcPending' :
          /\ (m.subject = "call" /\ rpcSlots[m.feature] # 0) =>
                GivenTo(rpcSlots[m.feature],
                        [m EXCEPT !.caller = RpcFeatureOf(m.from)])
          /\ (m.subject = "return" /\ m.caller # NoCaller
                /\ rpcSlots[m.caller] # 0) =>
                GivenTo(rpcSlots[m.caller], m)
          /\ (m.subject = "return" /\ m.caller = NoCaller) =>
                /\ rpcReturned' = Append(rpcReturned, m)
                /\ rpcInbox' = rpcInbox
      ]_vars

\* a call from the emitter's runtime reached the runtime that replaced the
\* driver feature's first one, stamped with the emitter feature, and a
\* return was handed to HandleReturn
C11_Witness ==
    /\ \E i \in DOMAIN rpcInbox[3] :
          /\ rpcInbox[3][i].subject = "call"
          /\ rpcInbox[3][i].from = 1
          /\ rpcInbox[3][i].caller = FeatureEmitter
    /\ rpcReturned # <<>>

\* a Call with this rpcID has returned
Returned(id) == callTable[id] \in {"returned", "timeout"}

InDrain(t) == drnTask[t].pc \in {"group", "wait", "advance"}
DrainReturned(t) == drnTask[t].pc \in {"drained", "end"}

\* C13: every call of Drain() returns, unless the process exits first,
\* having set healthy to false and called AdvanceStage(Drained) exactly
\* once, whether all, some or none of the drivers answer command:stop, and
\* also when every runtime is Failed or Stopped
C13_DrainTerminates ==
    /\ \A t \in DrainTasks : InDrain(t) ~> (DrainReturned(t) \/ drnShutDown)
    /\ [](\A t \in DrainTasks :
            /\ InDrain(t) => (~drnHealthy /\ drnTask[t].advanced = 0)
            /\ DrainReturned(t) => (~drnHealthy /\ drnTask[t].advanced = 1))

\* a Drain() that counted two runtimes returned on the timeout with one of
\* them Stopped and the other silent
C13_Witness ==
    \E t \in DrainTasks :
        /\ DrainReturned(t)
        /\ drnTask[t].cnt = 2
        /\ drnTask[t].how = "timeout"
        /\ Cardinality({r \in DrainRts : drnRt[r] = "Stopped"}) = 1
        /\ \A r \in DrainRts : drnInbox[r] = 0 /\ drnPending[r] = 0

\* handleReload has run in this step
Reloaded == drnLeft' < drnLeft

NewTasks == {t \in DrainTasks : drnTask[t].pc = "none" /\ drnTask'[t].pc # "none"}

\* C18: the reaction to broadcast:reload is determined by daemonID, force
\* and whether the service is the master: nothing for another daemon's id;
\* without force config.Refresh() on the master and nothing elsewhere; with
\* force a drain, and daemon.ShutDown() and exit on the master only, after
\* the drain has returned
C18_ReloadDecision ==
    /\ [][Reloaded =>
            LET m == drnLast'
            IN /\ m.daemonID = "other" =>
                    (drnRefresh' = drnRefresh /\ NewTasks = {})
               /\ (m.daemonID # "other" /\ ~m.force) =>
                    /\ NewTasks = {}
                    /\ drnRefresh' = drnRefresh + (IF drnMaster THEN 1 ELSE 0)
               /\ (m.daemonID # "other" /\ m.force) =>
                    /\ drnRefresh' = drnRefresh
                    /\ Cardinality(NewTasks) = 1
          ]_vars
    /\ [][~Reloaded => (NewTasks = {} /\ drnRefresh' = drnRefresh)]_vars
    /\ [](drnShutDown =>
            /\ drnMaster
            /\ \E t \in DrainTasks :
                  drnTask[t].pc = "end" /\ drnTask[t].advanced = 1)
    /\ [](\A t \in DrainTasks :
            (drnTask[t].pc = "end" /\ drnMaster) => drnShutDown)

\* the master refreshed its configuration on a reload without force and
\* shut down after the drain of a reload with force
C18_Witness ==
    /\ drnMaster
    /\ drnRefresh = 1
    /\ drnShutDown

(***************************************************************************)
(* Claims about process                                                    *)
(***************************************************************************)

Ended(state) == state \in {"done", "recovered"}

\* C19: a panic in an expect handler, a responder, a transformer or the
\* router never ends the process; the loop dispatches every later message,
\* every expect handler and responder of every message runs, and the chain
\* of every message runs, whatever panicked
C19_PanicsContained ==
    /\ [](~prcCrashed)
    /\ <>(/\ prcDispatched = MaxProcMsgs
          /\ \A m \in ProcMsgs :
                /\ Ended(prcChain[m].state)
                /\ \A x \in HandlersOf(m) : Ended(prcTask[m][x]))

\* both responders and an expect handler of the first message panicked; its
\* other expect handler ran, its chain reached the router, and the second
\* message was dispatched and its chain ended by a panicking transformer
C19_Witness ==
    /\ prcTask[1]["responder1"] = "recovered"
    /\ prcTask[1]["responder2"] = "recovered"
    /\ prcTask[1]["expect1"] = "recovered"
    /\ prcTask[1]["expect2"] = "done"
    /\ prcChain[1] = [pos |-> ChainLen, state |-> "done"]
    /\ prcChain[2] = [pos |-> 1, state |-> "recovered"]
    /\ \A x \in HandlersOf(2) : Ended(prcTask[2][x])

(***************************************************************************)
(* Claims about the supervising and the closing task of coldReload         *)
(***************************************************************************)

\* the supervising task of runtime r ends in this step
SupervisorEnds(r) == rt[r].sup /\ ~rt'[r].sup

\* the closing task t of a replaced or unused runtime runs in this step
CloserEnds(t) == t \in tasks /\ t.kind = "close" /\ t \notin tasks'

\* every runtime but r is as it was
OthersKept(r) == \A q \in RtIds \ {r} : rt'[q] = rt[q]

\* C21: the supervising task of a runtime R of feature F empties the slot of
\* F only if the slot still holds R itself; the exit of a replaced R and its
\* scheduled closure neither remove nor alter the runtime installed after
\* it, and removing R a second time changes nothing
C21_CompareAndDelete ==
    [][/\ \A r \in RtIds :
            SupervisorEnds(r) =>
               /\ \A f \in Features :
                     driverRuntimes'[f] # driverRuntimes[f] =>
                        /\ f = rt[r].feature
                        /\ driverRuntimes[f] = r
                        /\ driverRuntimes'[f] = 0
               /\ driverRuntimes[rt[r].feature] = r =>
                     driverRuntimes'[rt[r].feature] = 0
               /\ OthersKept(r)
               /\ CheckDelete(driverRuntimes', rt[r].feature, r) = driverRuntimes'
       /\ \A t \in tasks :
            CloserEnds(t) =>
               /\ driverRuntimes' = driverRuntimes
               /\ OthersKept(t.r)]_vars

\* a replaced runtime has exited and its supervising task has ended, while
\* the slot of its feature holds its running, supervised successor
C21_Witness ==
    \E r \in RtIds : \E q \in RtIds \ {r} :
       /\ rt[r].state # "none"
       /\ rt[r].proc = "exited"
       /\ ~rt[r].sup
       /\ driverRuntimes[rt[r].feature] = q
       /\ rt[q].proc = "running"
       /\ rt[q].sup

(***************************************************************************)
(* Claims about the timer task of addExpect                                *)
(***************************************************************************)

\* the timer task of expect h does its removal and calls except() in this
\* step
TimerExpires(h) == exp[h].timer = "checked" /\ exp'[h].timer = "done"

\* the list without the handler h
Without(list, h) == SelectSeq(list, LAMBDA x : x # h)

\* C22: when the timer of an expect fires while its handler is still
\* registered, exactly that handler leaves the list of its key and the other
\* handlers of the key stay (the key goes when the list is empty), so a
\* later matching message does not run the handler that timed out
C22_TimerRemovesOwnHandler ==
    [][\A h \in DOMAIN exp :
          (TimerExpires(h) /\ h \in Range(ExpectsAt(exp[h].key))) =>
             expects' = [expects EXCEPT ![exp[h].key] = Without(@, h)]]_vars

\* C23: the timer of an expect that a matching message has already fired
\* (the message came while the timer slept) does nothing when it expires:
\* its timeout callback does not run and no handler that a later addExpect
\* registered under the key is removed
C23_StaleTimerDoesNothing ==
    [][\A h \in DOMAIN exp :
          (/\ exp[h].spawned > 0
           /\ exp[h].atMsg = "sleep"
           /\ exp[h].timer # "done"
           /\ exp'[h].timer = "done") =>
             /\ exp'[h].toRan = exp[h].toRan
             /\ expects' = expects]_vars

(***************************************************************************)
(* Claims about handleDriverStop                                           *)
(***************************************************************************)

\* handleDriverStop runs for a state:stopped of runtime r in this step
StopHandled(r) == drnPending'[r] < drnPending[r]

\* C24: a runtime that Drain counted becomes Stopped and takes one unit off
\* the wait group exactly once, however many state:stopped messages it
\* sends; the counter of the wait group is never negative; a state:stopped
\* that arrives when no Drain has been started changes no runtime's state
C24_StoppedCountedOnce ==
    /\ [](drnGroup.n >= 0)
    /\ [][\A r \in DrainRts :
            StopHandled(r) =>
               /\ drnPanics' = drnPanics
               /\ drnRt'[r] # drnRt[r] =>
                     (drnGroup.set /\ drnGroup'.n = drnGroup.n - 1)
               /\ drnRt'[r] = drnRt[r] => drnGroup' = drnGroup
               /\ ~drnGroup.set => drnRt' = drnRt]_vars

(***************************************************************************)
(* Claims about crash recovery and the responder of state:cold             *)
(***************************************************************************)

\* the recovery tasks whose call of loadFeature happens in this step
Attempts == {t \in tasks : t.kind = "recover" /\ t.pc = "start" /\ t \notin tasks'}

\* C26: every attempt of loadFailedDriverRuntime, the first one and each
\* retry after a timed-out expect, whose loadFeature returns no error starts
\* a new driver process and installs it in the slot; no attempt only
\* registers an expect again
C26_AttemptStartsDriver ==
    [][\A t \in Attempts :
          lastLoad'.outcome # "error" =>
             /\ lastLoad'.outcome = "cold"
             /\ nRt' = nRt + 1
             /\ driverRuntimes'[rt[t.r].feature] = nRt'
             /\ rt'[nRt'].proc = "running"]_vars

\* C27: after a driver's state:cold its feature is cold reloaded, and when
\* the replacement has emitted state:alive and process() has seen it, the
\* slot has been Alive once nothing is left to do: an expect for state:alive
\* exists whenever a cold reload installed a Loading runtime
C27_ColdReloadBecomesAlive ==
    \A r \in RtIds :
        (/\ rt[r].by = "cold"
         /\ InSlot(r)
         /\ rt[r].aliveAt # ""
         /\ Quiet)
        => rt[r].wasAlive

\* C28: the runtime of a slot is set Alive only in response to a state:alive
\* that this same runtime sent: not by the state:alive of another runtime,
\* be it of another feature or the old runtime that is being replaced
C28_AliveByOwnMessage ==
    [][\A q \in RtIds :
          (rt'[q].state = "Alive" /\ rt[q].state # "Alive") =>
             rt[q].aliveAt # ""]_vars

\* the recovery tasks serviceLoop starts in this step
Started == {t \in tasks' \ tasks : t.kind = "recover" /\ t.count = 0 /\ t.pc = "start"}

\* a recovery task for runtime r that serviceLoop started and that has not
\* run yet
Waiting(r) ==
    \E u \in tasks : u.kind = "recover" /\ u.r = r /\ u.count = 0 /\ u.pc = "start"

\* C25: for a closed stream serviceLoop starts exactly one recovery task if
\* the runtime was Alive and none otherwise; iterations of the loop that
\* select the same closed stream again, before the runtime is Failed, start
\* no second recovery task
C25_OneRecoveryPerClose ==
    [][/\ Cardinality(Started) <= 1
       /\ \A t \in Started :
             /\ rt[t.r].state = "Alive"
             /\ rt[t.r].proc = "exited"
             /\ ~Waiting(t.r)]_vars

(***************************************************************************)
(* Claims about concurrent calls of loadFeature                            *)
(***************************************************************************)

\* every call of loadFeature has returned and every closing task has run
LoadsDone == tasks = {}

\* C29: whatever the interleaving of concurrent calls of loadFeature for one
\* feature, every runtime that was started is installed in its slot or is
\* closed in the end: once the calls have returned and the closing tasks
\* have run, a runtime whose process runs is the runtime of its slot
C29_NoStartedRuntimeLeaks ==
    LoadsDone =>
       \A r \in LoadRtIds :
          rt[r].proc = "running" => driverRuntimes[rt[r].feature] = r

(***************************************************************************)
(* Claims about RemoveComm                                                 *)
(***************************************************************************)

\* the deferred UnlockComm of sender t found no entry, or an entry whose
\* mutex is not locked
UnlockFailed(t) == commPc[t] \in {"panic", "fatal"}

\* C30: a RemoveComm(w) that runs while a SendRawMessage on w is under way
\* neither makes that send fail in UnlockComm nor lets another send on w
\* start writing before the first one has written its whole frame
C30_RemoveCommKeepsSendAtomic ==
    /\ \A t \in Senders : ~UnlockFailed(t)
    /\ \A w \in Writers : WellFramed(wire[w])

(***************************************************************************)
(* Claims about FetchMessage                                               *)
(***************************************************************************)

\* FetchMessage, that is DeserializePayload(FetchRawMessage(in)), has run
\* on the frame SendRawMessage wrote
FetchedMessage ==
    \/ codecPanic # ""
    \/ codecPc = "decoded" /\ codecMsg.IsRaw

\* the frame written is well formed and its size is 0
EmptyFrame ==
    /\ codecIn.channel # <<>>
    /\ codecIn.subject # <<>>
    /\ codecIn.payload = <<>>

\* C32: FetchMessage on a well-formed frame of size 0 raises no error and
\* returns a message with the frame's channel and subject and no payload,
\* the reader standing at the next header
C32_EmptyFrameFetched ==
    (FetchedMessage /\ EmptyFrame) =>
       /\ codecPanic = ""
       /\ codecMsg.Channel = codecIn.channel
       /\ codecMsg.Subject = codecIn.subject
       /\ codecMsg.Payload = NilPayload
       /\ codecWire = codecIn.next

(***************************************************************************)
(* Claims about the order of routed messages                               *)
(***************************************************************************)

\* the chain of message m has run the router, which has sent the routed
\* message to its target
Routed(m) == prcChain[m] = [pos |-> ChainLen, state |-> "done"]

\* C31: when a source runtime emits m1 and then m2 and the router sends
\* both to the same target, the frame routed from m1 is written to the
\* target before the frame routed from m2: no step writes the frame of the
\* earlier message when that of the later one is already written
C31_RoutedInOrder ==
    [][\A m1, m2 \in ProcMsgs :
          (m1 < m2 /\ ~Routed(m1) /\ Routed(m1)') => ~Routed(m2)]_vars

=============================================================================
